---- MODULE Spec2Model ----
(***************************************************************************)
(* A model of the colour palette / filament palette matcher                *)
(* (src/color_tools/palette.py) and of the conversion, gamut and           *)
(* configuration code it rests on (src/color_tools.py).                    *)
(*                                                                         *)
(* Numbers.  Python floats are modelled by integers in fixed units:        *)
(*   - RGB channels are plain integers;                                    *)
(*   - HSL / LAB / LCH components stored in ColorRecords are held in       *)
(*     thousandths (91113 is 91.113);                                      *)
(*   - a Euclidean distance math.sqrt(s) is represented by its radicand s, *)
(*     an exact wide integer [hi, lo] (value hi * 10^6 + lo): sqrt is      *)
(*     strictly increasing, so order and equality of the distances are     *)
(*     those of the radicands.                                             *)
(***************************************************************************)
EXTENDS Integers, Sequences, FiniteSets, TLC

VARIABLES
    records,      \* Palette.records: the ordered list of ColorRecords
    by_name,      \* Palette._by_name: lower-cased name -> position in records
    by_rgb,       \* Palette._by_rgb:  RGB tuple        -> position in records
    by_hsl,       \* Palette._by_hsl:  rounded HSL key  -> position in records
    by_lab,       \* Palette._by_lab:  rounded LAB key  -> position in records
    by_lch,       \* Palette._by_lch:  rounded LCH key  -> position in records
    built,        \* TRUE once Palette.__init__ has run
    filaments,    \* FilamentPalette.records: the ordered list of FilamentRecords
    maker_synonyms, \* FilamentPalette.maker_synonyms: canonical maker -> synonyms
    filament_index, \* FilamentPalette._by_maker, _by_type, _by_color, _by_rgb,
                  \* _by_finish: key -> positions in filaments
    fbuilt,       \* TRUE once FilamentPalette.__init__ has run
    result,       \* what the last query returned or raised
    config,       \* _config: the ColorConfig attributes held in each storage slot
    last_set,     \* per thread and attribute: the value the thread last set
    reading,      \* per thread and attribute: the values the thread has read
                  \* in the request it is serving
    gamut,        \* the activation record of find_nearest_in_gamut
    lookup,       \* what the last exact lookup (find_by_...) was given and returned
    measured,     \* the last distance computed: the function, its arguments
                  \* and its value
    loaded        \* what the last load of a data directory read and returned

palVars == <<records, by_name, by_rgb, by_hsl, by_lab, by_lch, built>>

filVars == <<filaments, maker_synonyms, filament_index, fbuilt>>

cfgVars == <<config, last_set, reading>>

qryVars == <<lookup, measured, loaded>>

vars == <<palVars, filVars, result, cfgVars, gamut, qryVars>>

----------------------------------------------------------------------------
(* Bounds of the model *)

\* the longest record list a palette is built from (besides ScenarioPalette)
MaxRecords == 3

\* the longest filament list a filament palette is built from
MaxFilaments == 2

----------------------------------------------------------------------------
(* Wide non-negative integers: [hi, lo] stands for hi * 10^6 + lo *)

WBase == 1000 * 1000

Abs(x) == IF x < 0 THEN -x ELSE x

Min(a, b) == IF a <= b THEN a ELSE b

Max(a, b) == IF a >= b THEN a ELSE b

WNorm(hi, lo) == [hi |-> hi + (lo \div WBase), lo |-> lo % WBase]

\* x * x for |x| < 10^6
WSq(x) ==
    LET q == Abs(x) \div 1000
        r == Abs(x) % 1000
    IN  WNorm(q * q, 2000 * q * r + r * r)

WAdd(a, b) == WNorm(a.hi + b.hi, a.lo + b.lo)

WLess(a, b) == a.hi < b.hi \/ (a.hi = b.hi /\ a.lo < b.lo)

WZero == [hi |-> 0, lo |-> 0]

\* float("inf"): above every distance
Inf == [hi |-> -1, lo |-> -1]

\* d < best_d on floats, best_d possibly inf
DLess(d, best_d) ==
    IF d = Inf THEN FALSE
    ELSE IF best_d = Inf THEN TRUE
    ELSE WLess(d, best_d)

\* d <= e on floats
DLeq(d, e) == d = e \/ DLess(d, e)

----------------------------------------------------------------------------
(* Fixed-point arithmetic.  Quantities on the unit scale (channel           *)
(* fractions, linear light, XYZ, the LAB helper f) are held in millionths:  *)
(* Unit stands for 1.0.  Products and quotients are rounded to the nearest  *)
(* millionth.                                                               *)

Unit == 1000 * 1000

Sign(x) == IF x < 0 THEN -1 ELSE 1

\* |a| * |b| / Unit for a, b >= 0, by limbs of 1000 (no 32-bit overflow for
\* values below 40.0)
FMulAbs(a, b) ==
    LET ah == a \div 1000
        al == a % 1000
        bh == b \div 1000
        bl == b % 1000
        m  == ah * bl + al * bh
    IN  ah * bh + (m \div 1000)
        + (((m % 1000) * 1000 + al * bl + (Unit \div 2)) \div Unit)

\* a * b on the unit scale
FMul(a, b) == Sign(a) * Sign(b) * FMulAbs(Abs(a), Abs(b))

\* long division, one decimal digit at a time: the quotient rem / b continued
\* for n more digits (0 <= rem < b < 2 * 10^8)
RECURSIVE DivDigits(_, _, _, _)
DivDigits(rem, b, n, acc) ==
    IF n = 0 THEN IF 2 * rem >= b THEN acc + 1 ELSE acc
    ELSE DivDigits((rem * 10) % b, b, n - 1, acc * 10 + ((rem * 10) \div b))

\* a / b on the unit scale (b # 0)
FDiv(a, b) ==
    Sign(a) * Sign(b) * DivDigits(Abs(a) % Abs(b), Abs(b), 6, Abs(a) \div Abs(b))

\* round(x): the nearest integer to a unit-scale value
RoundInt(x) == (x + (Unit \div 2)) \div Unit

\* the largest r in lo..hi with P(r) true, for the three monotone searches below
RECURSIVE CbrtSearch(_, _, _)
CbrtSearch(t, lo, hi) ==
    IF hi - lo <= 1 THEN lo
    ELSE LET mid == (lo + hi) \div 2
         IN  IF FMul(FMul(mid, mid), mid) <= t
             THEN CbrtSearch(t, mid, hi)
             ELSE CbrtSearch(t, lo, mid)

\* t ** (1.0 / 3.0) for 0 <= t < 27.0
Cbrt(t) == CbrtSearch(t, 0, 3 * Unit)

RECURSIVE SqrtSearch(_, _, _)
SqrtSearch(t, lo, hi) ==
    IF hi - lo <= 1 THEN lo
    ELSE LET mid == (lo + hi) \div 2
         IN  IF FMul(mid, mid) <= t
             THEN SqrtSearch(t, mid, hi)
             ELSE SqrtSearch(t, lo, mid)

\* t ** 0.5 for 0 <= t < 36.0
FSqrt(t) == SqrtSearch(t, 0, 6 * Unit)

Pow5(r) == FMul(FMul(FMul(FMul(r, r), r), r), r)

RECURSIVE Root5Search(_, _, _)
Root5Search(t, lo, hi) ==
    IF hi - lo <= 1 THEN lo
    ELSE LET mid == (lo + hi) \div 2
         IN  IF Pow5(mid) <= t
             THEN Root5Search(t, mid, hi)
             ELSE Root5Search(t, lo, mid)

\* t ** 0.2 for 0 <= t < 32.0
Root5(t) == Root5Search(t, 0, 2 * Unit)

\* y ** 2.4 = y^2 * (y^2) ** 0.2, for 0 <= y <= 1.4
Pow24(y) == FMul(FMul(y, y), Root5(FMul(y, y)))

\* c ** (1 / 2.4) = c ** (1/3) * ((c ** (1/3)) ** 0.5) ** 0.5, for c >= 0
PowInv24(c) == FMul(Cbrt(c), FSqrt(FSqrt(Cbrt(c))))

----------------------------------------------------------------------------
(* ColorConstants (unit scale) *)

D65_WHITE_X == 95047000
D65_WHITE_Y == 100000000
D65_WHITE_Z == 108883000

SRGB_TO_XYZ_R == <<412456, 357576, 180438>>
SRGB_TO_XYZ_G == <<212673, 715152, 72175>>
SRGB_TO_XYZ_B == <<19334, 119192, 950304>>

XYZ_TO_SRGB_X == <<3240454, -1537139, -498531>>
XYZ_TO_SRGB_Y == <<-969266, 1876011, 41556>>
XYZ_TO_SRGB_Z == <<55643, -204026, 1057225>>

SRGB_GAMMA_THRESHOLD == 40450
SRGB_GAMMA_LINEAR_SCALE == 12920000
SRGB_GAMMA_OFFSET == 55000
SRGB_GAMMA_DIVISOR == 1055000
SRGB_INV_GAMMA_THRESHOLD == 3131

LAB_DELTA == (6 * Unit) \div 29
LAB_KAPPA == 116
LAB_OFFSET == 16
LAB_A_SCALE == 500
LAB_B_SCALE == 200
LAB_DELTA_CUBED == FMul(FMul(LAB_DELTA, LAB_DELTA), LAB_DELTA)
LAB_F_SCALE == 3 * FMul(LAB_DELTA, LAB_DELTA)
LAB_F_OFFSET == (4 * Unit) \div 29

HUE_CIRCLE_DEGREES == 360
RGB_MIN == 0
RGB_MAX == 255
NORMALIZED_MIN == 0
XYZ_SCALE_FACTOR == 100

----------------------------------------------------------------------------
(* Forward conversions (RGB -> LAB).  LAB is returned in thousandths. *)

srgb_to_linear(c) ==
    IF c <= SRGB_GAMMA_THRESHOLD
    THEN FDiv(c, SRGB_GAMMA_LINEAR_SCALE)
    ELSE Pow24(FDiv(c + SRGB_GAMMA_OFFSET, SRGB_GAMMA_DIVISOR))

\* one row of a 3x3 matrix product
Row(m, x, y, z) == FMul(x, m[1]) + FMul(y, m[2]) + FMul(z, m[3])

\* XYZ scaled 0-100, on the unit scale
rgb_to_xyz(rgb) ==
    LET r_lin == srgb_to_linear((rgb[1] * Unit) \div RGB_MAX)
        g_lin == srgb_to_linear((rgb[2] * Unit) \div RGB_MAX)
        b_lin == srgb_to_linear((rgb[3] * Unit) \div RGB_MAX)
    IN  <<Row(SRGB_TO_XYZ_R, r_lin, g_lin, b_lin) * XYZ_SCALE_FACTOR,
          Row(SRGB_TO_XYZ_G, r_lin, g_lin, b_lin) * XYZ_SCALE_FACTOR,
          Row(SRGB_TO_XYZ_B, r_lin, g_lin, b_lin) * XYZ_SCALE_FACTOR>>

_f_lab(t) ==
    IF t > LAB_DELTA_CUBED THEN Cbrt(t)
    ELSE FDiv(t, LAB_F_SCALE) + LAB_F_OFFSET

\* a unit-scale value in thousandths
ToMilli(x) == (x + 500) \div 1000

xyz_to_lab(xyz) ==
    LET fx == _f_lab(FDiv(xyz[1], D65_WHITE_X))
        fy == _f_lab(FDiv(xyz[2], D65_WHITE_Y))
        fz == _f_lab(FDiv(xyz[3], D65_WHITE_Z))
    IN  <<ToMilli(LAB_KAPPA * fy - LAB_OFFSET * Unit),
          ToMilli(LAB_A_SCALE * (fx - fy)),
          ToMilli(LAB_B_SCALE * (fy - fz))>>

\* the RGB targets of the filament searches
TargetRgbs == {<<0, 255, 255>>, <<128, 128, 128>>}

\* xyz_to_lab(rgb_to_xyz(rgb)) of the search targets, computed once
LabMemo == [rgb \in TargetRgbs |-> xyz_to_lab(rgb_to_xyz(rgb))]

rgb_to_lab(rgb) ==
    IF rgb \in DOMAIN LabMemo THEN LabMemo[rgb]
    ELSE xyz_to_lab(rgb_to_xyz(rgb))

----------------------------------------------------------------------------
(* Reverse conversions (LAB -> RGB) *)

_f_lab_inverse(t) ==
    IF t > LAB_DELTA THEN FMul(FMul(t, t), t)
    ELSE FMul(LAB_F_SCALE, t - LAB_F_OFFSET)

lab_to_xyz(lab) ==
    LET fy == ((lab[1] + LAB_OFFSET * 1000) * 1000) \div LAB_KAPPA
        fx == ((lab[2] * 1000) \div LAB_A_SCALE) + fy
        fz == fy - ((lab[3] * 1000) \div LAB_B_SCALE)
    IN  <<FMul(D65_WHITE_X, _f_lab_inverse(fx)),
          FMul(D65_WHITE_Y, _f_lab_inverse(fy)),
          FMul(D65_WHITE_Z, _f_lab_inverse(fz))>>

linear_to_srgb(c) ==
    IF c <= SRGB_INV_GAMMA_THRESHOLD
    THEN FMul(SRGB_GAMMA_LINEAR_SCALE, c)
    ELSE FMul(SRGB_GAMMA_DIVISOR, PowInv24(c)) - SRGB_GAMMA_OFFSET

Clamp255(v) ==
    Max(RGB_MIN * Unit, Min(RGB_MAX * Unit, v))

xyz_to_rgb(xyz, clamp) ==
    LET X == xyz[1] \div XYZ_SCALE_FACTOR
        Y == xyz[2] \div XYZ_SCALE_FACTOR
        Z == xyz[3] \div XYZ_SCALE_FACTOR
        r_255 == linear_to_srgb(Row(XYZ_TO_SRGB_X, X, Y, Z)) * RGB_MAX
        g_255 == linear_to_srgb(Row(XYZ_TO_SRGB_Y, X, Y, Z)) * RGB_MAX
        b_255 == linear_to_srgb(Row(XYZ_TO_SRGB_Z, X, Y, Z)) * RGB_MAX
    IN  IF clamp
        THEN <<RoundInt(Clamp255(r_255)), RoundInt(Clamp255(g_255)),
               RoundInt(Clamp255(b_255))>>
        ELSE <<RoundInt(r_255), RoundInt(g_255), RoundInt(b_255)>>

lab_to_rgb(lab, clamp) == xyz_to_rgb(lab_to_xyz(lab), clamp)

----------------------------------------------------------------------------
(* Cylindrical LAB.  Chroma in thousandths, hue in thousandths of a degree. *)
(* math.atan2, math.cos and math.sin are computed by CORDIC rotations       *)
(* through the angles atan(2^-i), held in millionths of a degree.           *)

\* math.degrees(math.atan(2 ** -i)) for i = 0, 1, ...
ATAN_TABLE ==
    <<45000000, 26565051, 14036243, 7125016, 3576334, 1789911, 895174,
      447614, 223811, 111906, 55953, 27976, 13988, 6994, 3497, 1749, 874,
      437, 219, 109, 55, 27>>

\* the unit vector along the x axis, divided by the gain of the rotations
\* (scale 10^8)
CORDIC_START == <<60725294, 0>>

Degrees(n) == n * Unit

\* rotate (x, y), x > 0, onto the x axis: the angle turned through
RECURSIVE CordicVector(_, _, _, _)
CordicVector(x, y, z, i) ==
    IF i > Len(ATAN_TABLE) \/ y = 0 THEN z
    ELSE LET dx == x \div (2 ^ (i - 1))
             dy == y \div (2 ^ (i - 1))
         IN  IF y > 0
             THEN CordicVector(x + dy, y - dx, z + ATAN_TABLE[i], i + 1)
             ELSE CordicVector(x - dy, y + dx, z - ATAN_TABLE[i], i + 1)

\* math.degrees(math.atan2(y, x)) in millionths of a degree, y and x in
\* thousandths
Atan2Deg(y, x) ==
    IF x = 0 /\ y = 0 THEN 0
    ELSE IF x > 0 THEN CordicVector(x * 1000, y * 1000, 0, 1)
    ELSE IF x = 0 THEN (IF y > 0 THEN Degrees(90) ELSE -Degrees(90))
    ELSE IF y >= 0
         THEN Degrees(180) - CordicVector((-x) * 1000, y * 1000, 0, 1)
         ELSE -Degrees(180) - CordicVector((-x) * 1000, y * 1000, 0, 1)

\* rotate (x, y) through the angle z, -90 <= z <= 90 degrees
RECURSIVE CordicRotate(_, _, _, _)
CordicRotate(x, y, z, i) ==
    IF i > Len(ATAN_TABLE) THEN <<x, y>>
    ELSE LET dx == x \div (2 ^ (i - 1))
             dy == y \div (2 ^ (i - 1))
         IN  IF z >= 0
             THEN CordicRotate(x - dy, y + dx, z - ATAN_TABLE[i], i + 1)
             ELSE CordicRotate(x + dy, y - dx, z + ATAN_TABLE[i], i + 1)

\* <<math.cos, math.sin>> of math.radians(h) on the unit scale, h in
\* thousandths of a degree, 0 <= h <= 360
CosSin(h) ==
    LET t == h * 1000
        half == t > Degrees(90) /\ t <= Degrees(270)
        z == IF t <= Degrees(90) THEN t
             ELSE IF half THEN t - Degrees(180)
             ELSE t - Degrees(360)
        v == CordicRotate(CORDIC_START[1], CORDIC_START[2], z, 1)
        s == IF half THEN -1 ELSE 1
    IN  <<s * ((v[1] + 50) \div 100), s * ((v[2] + 50) \div 100)>>

WLeq(a, b) == ~WLess(b, a)

\* the largest r in lo .. hi - 1 with r * r <= w
RECURSIVE WSqrtSearch(_, _, _)
WSqrtSearch(w, lo, hi) ==
    IF hi - lo <= 1 THEN lo
    ELSE LET mid == (lo + hi) \div 2
         IN  IF WLeq(WSq(mid), w)
             THEN WSqrtSearch(w, mid, hi)
             ELSE WSqrtSearch(w, lo, mid)

\* math.sqrt(a*a + b*b), rounded to the nearest thousandth
Hypot(a, b) ==
    LET w == WAdd(WSq(a), WSq(b))
        w4 == WAdd(WAdd(w, w), WAdd(w, w))
    IN  (WSqrtSearch(w4, 0, WBase) + 1) \div 2

lab_to_lch(lab) ==
    LET C == Hypot(lab[2], lab[3])
        h == ToMilli(Atan2Deg(lab[3], lab[2]))
    IN  <<lab[1], C, IF h < 0 THEN h + HUE_CIRCLE_DEGREES * 1000 ELSE h>>

\* a faulty variant: a and b exchanged
LchToLabSwapped(lch) ==
    LET cs == CosSin(lch[3])
    IN  <<lch[1], FMul(lch[2], cs[2]), FMul(lch[2], cs[1])>>

lch_to_lab(lch) ==
    LET cs == CosSin(lch[3])
    IN  <<lch[1], FMul(lch[2], cs[1]), FMul(lch[2], cs[2])>>

----------------------------------------------------------------------------
(* Gamut checking *)

\* is_in_srgb_gamut(lab, tolerance): tolerance on the unit scale
is_in_srgb_gamut(lab, tolerance) ==
    LET rgb == lab_to_rgb(lab, FALSE)
        min_val == RGB_MIN * Unit - tolerance
        max_val == RGB_MAX * Unit + tolerance
    IN  \A k \in 1..3 : min_val <= rgb[k] * Unit /\ rgb[k] * Unit <= max_val

\* a faulty variant: the interval is cut at its first third
ThirdStep(L, h, min_c, max_c, tolerance) ==
    LET test_c == min_c + (max_c - min_c) \div 3
        test_lab == lch_to_lab(<<L, test_c, h>>)
    IN  IF is_in_srgb_gamut(test_lab, tolerance)
        THEN <<test_c, max_c>>
        ELSE <<min_c, test_c>>

\* one pass of the loop of find_nearest_in_gamut: the interval <<min_c, max_c>>
\* after testing its midpoint
BisectStep(L, h, min_c, max_c, tolerance) ==
    LET test_c == (min_c + max_c) \div 2
        test_lab == lch_to_lab(<<L, test_c, h>>)
    IN  IF is_in_srgb_gamut(test_lab, tolerance)
        THEN <<test_c, max_c>>
        ELSE <<min_c, test_c>>

----------------------------------------------------------------------------
(* Strings *)

\* str.lower() on the strings the model uses
lower(s) ==
    CASE s = "Cyan" -> "cyan"
      [] s = "AQUA" -> "aqua"
      [] s = "Aqua" -> "aqua"
      [] s = "Zebra" -> "zebra"
      [] s = "Neon" -> "neon"
      [] s = "RGB"  -> "rgb"
      [] s = "Lab"  -> "lab"
      [] s = "DE76" -> "de76"
      [] OTHER -> s

----------------------------------------------------------------------------
(* Override precedence *)

core_files == {"colors.json", "filaments.json"}

\* a faulty variant: no source is ever preferred, the first record inserted
\* keeps its key
NeverPrefer(new_source, current_source) == FALSE

_should_prefer_source(new_source, current_source) ==
    LET new_is_core == new_source \in core_files
        current_is_core == current_source \in core_files
    IN  IF current_is_core /\ ~new_is_core THEN TRUE
        ELSE IF ~current_is_core /\ new_is_core THEN FALSE
        ELSE FALSE

----------------------------------------------------------------------------
(* ColorRecord *)

ColorRecord(name, hex, rgb, hsl, lab, lch, source) ==
    [name |-> name, hex |-> hex, rgb |-> rgb, hsl |-> hsl, lab |-> lab,
     lch |-> lch, source |-> source]

Black == ColorRecord("black", "#000000", <<0, 0, 0>>, <<0, 0, 0>>,
                     <<0, 0, 0>>, <<0, 0, 0>>, "colors.json")
Cyan == ColorRecord("cyan", "#00FFFF", <<0, 255, 255>>,
                    <<180000, 100000, 50000>>, <<91113, -48088, -14131>>,
                    <<91113, 50121, 196376>>, "colors.json")
Magenta == ColorRecord("magenta", "#FF00FF", <<255, 0, 255>>,
                       <<300000, 100000, 50000>>, <<60324, 98234, -60825>>,
                       <<60324, 115541, 328235>>, "colors.json")
White == ColorRecord("white", "#FFFFFF", <<255, 255, 255>>,
                     <<0, 0, 100000>>, <<100000, 0, 0>>, <<100000, 0, 0>>,
                     "colors.json")
\* the CSS synonym of cyan: the same values under another name (a core/core collision)
Aqua == ColorRecord("aqua", "#00FFFF", <<0, 255, 255>>,
                    <<180000, 100000, 50000>>, <<91113, -48088, -14131>>,
                    <<91113, 50121, 196376>>, "colors.json")
\* a user record colliding with cyan by name, RGB and rounded keys, with its
\* own third decimals
UserCyan == ColorRecord("Cyan", "#00ffff", <<0, 255, 255>>,
                        <<180000, 100000, 50000>>, <<91114, -48087, -14129>>,
                        <<91114, 50119, 196374>>, "user-colors.json")
\* a second user record, colliding with aqua by name and with cyan by value
UserAqua == ColorRecord("AQUA", "#00FFFF", <<0, 255, 255>>,
                        <<180000, 100000, 50000>>, <<91113, -48088, -14131>>,
                        <<91113, 50121, 196376>>, "user-colors.json")

\* aqua as _parse_color_records yields it from data parsed without a file name
RawAqua == [Aqua EXCEPT !.source = "unknown.json"]

ColorPool == {Black, Cyan, Magenta, White, Aqua, UserCyan, UserAqua}

\* the colours of the palettes whose overrides are reported
OverridePool == {Cyan, Aqua, UserCyan, UserAqua, RawAqua, Black}

\* the four-entry palette of the end-to-end scenario
ScenarioPalette == <<Black, Cyan, Magenta, White>>

\* the lists of at most n distinct elements of S
SeqsUpTo(S, n) ==
    {q \in UNION {[1..k -> S] : k \in 0..n} :
        \A i, j \in DOMAIN q : i # j => q[i] # q[j]}

RecordLists == SeqsUpTo(ColorPool, MaxRecords) \cup {ScenarioPalette}

----------------------------------------------------------------------------
(* _rounded_key: round(x, 2) of each component *)

\* round(x, 2) of a value in thousandths, in hundredths (no component of the
\* model lies on an exact half)
Round2(x) ==
    LET q == x \div 10
        r == x % 10
    IN  IF r >= 5 THEN q + 1 ELSE q

\* the text str(round(x, 2)): the rounded value, and whether it prints as -0.0
RoundedStr(x) == <<Round2(x), x < 0 /\ Round2(x) = 0>>

_rounded_key(nums) == [i \in 1..Len(nums) |-> RoundedStr(nums[i])]

----------------------------------------------------------------------------
(* Palette.__init__ *)

\* the key of a record in one of the five indices
IndexKey(record, index) ==
    CASE index = "name" -> lower(record.name)
      [] index = "rgb"  -> record.rgb
      [] index = "hsl"  -> _rounded_key(record.hsl)
      [] index = "lab"  -> _rounded_key(record.lab)
      [] index = "lch"  -> _rounded_key(record.lch)

\* dict[k] = v
DictPut(d, k, v) == (k :> v) @@ d

EmptyDict == [x \in {} |-> 0]

\* one pass of the loop body for one index: the record at position i enters
\* the index when its key is new or its source is preferred over the holder's
IndexInsert(recs, d, i, index) ==
    LET k == IndexKey(recs[i], index)
    IN  IF k \notin DOMAIN d
           \/ _should_prefer_source(recs[i].source, recs[d[k]].source)
        THEN DictPut(d, k, i)
        ELSE d

RECURSIVE BuildIndexFrom(_, _, _, _)
BuildIndexFrom(recs, d, i, index) ==
    IF i > Len(recs) THEN d
    ELSE LET after == IndexInsert(recs, d, i, index)
         IN  \* the dictionary of a pass is complete before the next pass
             IF after = d THEN BuildIndexFrom(recs, d, i + 1, index)
             ELSE BuildIndexFrom(recs, after, i + 1, index)

BuildIndex(recs, index) == BuildIndexFrom(recs, EmptyDict, 1, index)

----------------------------------------------------------------------------
(* Distances *)

\* euclidean(v1, v2): math.sqrt of the sum of squared differences (its radicand)
euclidean(v1, v2) ==
    WAdd(WAdd(WSq(v1[1] - v2[1]), WSq(v1[2] - v2[2])), WSq(v1[3] - v2[3]))

\* a faulty variant of hue_diff_deg: the plain difference, not the circular one
PlainDifference(h1, h2) == Abs(h1 - h2)

\* hue_diff_deg(h1, h2), hues in thousandths of a degree
hue_diff_deg(h1, h2) ==
    LET d == Abs(h1 - h2) % (HUE_CIRCLE_DEGREES * 1000)
    IN  Min(d, HUE_CIRCLE_DEGREES * 1000 - d)

\* hsl_euclidean(hsl1, hsl2) (its radicand)
hsl_euclidean(hsl1, hsl2) ==
    LET dh == hue_diff_deg(hsl1[1], hsl2[1])
        ds == hsl1[2] - hsl2[2]
        dl == hsl1[3] - hsl2[3]
    IN  WAdd(WAdd(WSq(dh), WSq(ds)), WSq(dl))

delta_e_76(lab1, lab2) == euclidean(lab1, lab2)

\* the metric names each branch of the metric dispatch accepts
MetricNames2000 == {"de2000", "ciede2000"}
MetricNames94 == {"de94", "cie94"}
MetricNames76 == {"de76", "cie76", "euclidean"}
MetricNamesCMC == {"cmc", "decmc", "cmc21", "cmc11"}

\* the function Palette.nearest_color selects for a lower-cased metric name,
\* "raise" when it raises ValueError("Unknown metric ...")
PaletteMetricFn(metric_l) ==
    IF metric_l \in MetricNames2000 THEN "delta_e_2000"
    ELSE IF metric_l \in MetricNames94 THEN "delta_e_94"
    ELSE IF metric_l \in MetricNames76 THEN "delta_e_76"
    ELSE IF metric_l \in MetricNamesCMC THEN "delta_e_cmc"
    ELSE "raise"

\* the distance the selected function computes
DeltaE(fn, lab1, lab2) ==
    CASE fn = "delta_e_76" -> delta_e_76(lab1, lab2)
      [] fn = "euclidean"  -> euclidean(lab1, lab2)

\* the branch of nearest_color / nearest_colors a space string selects: any
\* string other than rgb, hsl and lch falls through to the LAB branch
SpaceBranch(space) ==
    IF lower(space) = "rgb" THEN "rgb"
    ELSE IF lower(space) = "hsl" THEN "hsl"
    ELSE IF lower(space) = "lch" THEN "lch"
    ELSE "lab"

\* the distance d computed for record r in the loop of the selected branch
RecordDistance(branch, fn, value, r) ==
    CASE branch = "rgb" -> euclidean(value, r.rgb)
      [] branch = "hsl" -> hsl_euclidean(value, r.hsl)
      [] branch = "lch" -> hsl_euclidean(value, r.lch)
      [] branch = "lab" -> DeltaE(fn, value, r.lab)

----------------------------------------------------------------------------
(* Delta E formulas CIE94 and CMC l:c.  LAB arguments are in thousandths;  *)
(* the arithmetic is on the unit scale, and so is the distance returned.   *)
(* A result is [ok, d]: ok is FALSE when the Python raises (math.sqrt of a *)
(* negative number, a division by zero).                                   *)

Dist(d) == [ok |-> TRUE, d |-> d]
MathError == [ok |-> FALSE, d |-> 0]

\* r * r for 0 <= r < 46.0 on the unit scale, as an exact wide integer of
\* 10^-12
ExactSq(r) ==
    LET rh == r \div 1000
        rl == r % 1000
        m  == 2 * rh * rl
    IN  WNorm(rh * rh + (m \div 1000), (m % 1000) * 1000 + rl * rl)

\* the largest r in lo .. hi - 1 with r * r <= t
RECURSIVE MathSqrtSearch(_, _, _)
MathSqrtSearch(t, lo, hi) ==
    IF hi - lo <= 1 THEN lo
    ELSE LET mid == (lo + hi) \div 2
         IN  IF WLeq(ExactSq(mid), [hi |-> t, lo |-> 0])
             THEN MathSqrtSearch(t, mid, hi)
             ELSE MathSqrtSearch(t, lo, mid)

\* math.sqrt(t) for 0 <= t < 2116.0, rounded down to a millionth: exactly 0
\* at 0
MathSqrt(t) == MathSqrtSearch(t, 0, 46 * Unit)

\* x ** 2
Sq(x) == FMul(x, x)

\* math.hypot(a, b) on the unit scale
Chroma(a, b) == MathSqrt(Sq(a) + Sq(b))

NORMALIZED_MAX == 1000000
DE94_K1 == 45000
DE94_K2 == 15000

\* a faulty variant of delta_e_94: a distance that is not 0 between equal
\* colours
OffsetDistance(lab1, lab2) == Dist(Unit)

\* delta_e_94(lab1, lab2) with the default kL = kC = kH = 1
delta_e_94(lab1, lab2) ==
    LET dL == (lab1[1] - lab2[1]) * 1000
        da == (lab1[2] - lab2[2]) * 1000
        db == (lab1[3] - lab2[3]) * 1000
        C1 == Chroma(lab1[2] * 1000, lab1[3] * 1000)
        C2 == Chroma(lab2[2] * 1000, lab2[3] * 1000)
        dC == C1 - C2
        dH_sq == Sq(da) + Sq(db) - Sq(dC)
        SL == NORMALIZED_MAX
        SC == NORMALIZED_MAX + FMul(DE94_K1, C1)
        SH == NORMALIZED_MAX + FMul(DE94_K2, C1)
        sum == Sq(FDiv(dL, SL)) + Sq(FDiv(dC, SC)) + FDiv(dH_sq, Sq(SH))
    IN  IF sum < 0 THEN MathError ELSE Dist(MathSqrt(sum))

CMC_L_THRESHOLD == 16
CMC_L_LOW == 511000
CMC_L_SCALE == 40975
CMC_L_DIVISOR == 17650
CMC_C_SCALE == 63800
CMC_C_DIVISOR == 13100
CMC_C_OFFSET == 638000
CMC_HUE_MIN == 164
CMC_HUE_MAX == 345
CMC_T_IN_RANGE == 560000
CMC_T_COS_MULT_IN == 200000
CMC_T_HUE_OFFSET_IN == 168
CMC_T_OUT_RANGE == 360000
CMC_T_COS_MULT_OUT == 400000
CMC_T_HUE_OFFSET_OUT == 35
CMC_F_DIVISOR == 1900
CMC_DEFAULT_L == 2
CMC_DEFAULT_C == 1

\* _atan2_deg(y, x) of unit-scale arguments: the angle in [0, 360), in
\* millionths of a degree
_atan2_deg(y, x) ==
    LET ang == IF x > 0 THEN CordicVector(x, y, 0, 1)
               ELSE IF x = 0 THEN (IF y > 0 THEN Degrees(90) ELSE -Degrees(90))
               ELSE IF y >= 0 THEN Degrees(180) - CordicVector(-x, y, 0, 1)
               ELSE -Degrees(180) - CordicVector(-x, y, 0, 1)
    IN  IF x = 0 /\ y = 0 THEN 0
        ELSE IF ang < 0 THEN ang + Degrees(HUE_CIRCLE_DEGREES) ELSE ang

\* math.sin(math.radians(h)) for an angle h in millionths of a degree; the
\* sine of -h is exactly minus the sine of h
SinDeg(h) ==
    Sign(h) * CosSin((Abs(h) % Degrees(HUE_CIRCLE_DEGREES)) \div 1000)[2]

\* x * 0.5, rounded towards 0
Half(x) == Sign(x) * (Abs(x) \div 2)

\* math.cos(math.radians(h)) for an angle h in millionths of a degree
CosDeg(h) == CosSin((h % Degrees(HUE_CIRCLE_DEGREES)) \div 1000)[1]

\* the factor T of delta_e_cmc for the hue h1
CmcT(h1) ==
    IF Degrees(CMC_HUE_MIN) <= h1 /\ h1 <= Degrees(CMC_HUE_MAX)
    THEN CMC_T_IN_RANGE
         + Abs(FMul(CMC_T_COS_MULT_IN, CosDeg(h1 + Degrees(CMC_T_HUE_OFFSET_IN))))
    ELSE CMC_T_OUT_RANGE
         + Abs(FMul(CMC_T_COS_MULT_OUT, CosDeg(h1 + Degrees(CMC_T_HUE_OFFSET_OUT))))

\* the factor F of delta_e_cmc: sqrt(C1^4 / (C1^4 + 1900)), with numerator
\* and denominator both divided by 1900 so that C1^4 stays in range
CmcF(C1) ==
    IF C1 = 0 THEN 0
    ELSE LET y == FMul(Sq(C1),
                      (Sq(C1) + CMC_F_DIVISOR \div 2) \div CMC_F_DIVISOR)
         IN  MathSqrt(FDiv(y, y + Unit))

\* delta_e_cmc(lab1, lab2) with the default l = 2, c = 1
delta_e_cmc(lab1, lab2) ==
    LET L1 == lab1[1] * 1000
        dL == (lab1[1] - lab2[1]) * 1000
        da == (lab1[2] - lab2[2]) * 1000
        db == (lab1[3] - lab2[3]) * 1000
        C1 == Chroma(lab1[2] * 1000, lab1[3] * 1000)
        C2 == Chroma(lab2[2] * 1000, lab2[3] * 1000)
        dC == C1 - C2
        dH_sq == Max(Sq(da) + Sq(db) - Sq(dC), 0)
        H1 == _atan2_deg(lab1[3] * 1000, lab1[2] * 1000)
        SL == IF L1 < CMC_L_THRESHOLD * Unit THEN CMC_L_LOW
              ELSE FDiv(FMul(CMC_L_SCALE, L1),
                        NORMALIZED_MAX + FMul(CMC_L_DIVISOR, L1))
        SC == FDiv(FMul(CMC_C_SCALE, C1),
                   NORMALIZED_MAX + FMul(CMC_C_DIVISOR, C1))
              + CMC_C_OFFSET
        SH == FMul(SC, FMul(CmcF(C1), CmcT(H1)) + (NORMALIZED_MAX - CmcF(C1)))
        term_L == Sq(FDiv(dL, CMC_DEFAULT_L * SL))
        term_C == Sq(FDiv(dC, CMC_DEFAULT_C * SC))
        term_H == IF SH # 0 THEN Sq(FDiv(MathSqrt(dH_sq), SH)) ELSE 0
    IN  Dist(MathSqrt(term_L + term_C + term_H))

----------------------------------------------------------------------------
(* Delta E formula CIEDE2000 *)

HUE_HALF_CIRCLE_DEGREES == 180
DE2000_POW7_BASE == 25
DE2000_HUE_OFFSET_1 == 30
DE2000_HUE_WEIGHT_1 == 170000
DE2000_HUE_MULT_2 == 2
DE2000_HUE_WEIGHT_2 == 240000
DE2000_HUE_MULT_3 == 3
DE2000_HUE_OFFSET_3 == 6
DE2000_HUE_WEIGHT_3 == 320000
DE2000_HUE_MULT_4 == 4
DE2000_HUE_OFFSET_4 == 63
DE2000_HUE_WEIGHT_4 == 200000
DE2000_DRO_MULT == 30
DE2000_DRO_CENTER == 275
DE2000_DRO_DIVISOR == 25
DE2000_L_WEIGHT == 15000
DE2000_L_OFFSET == 50
DE2000_L_DIVISOR == 20
DE2000_C_WEIGHT == 45000
DE2000_H_WEIGHT == 15000

\* _hp(ap, b)
_hp(ap, b) == _atan2_deg(b, ap)

\* _mean_hue(h1, h2, C1p, C2p)
_mean_hue(h1, h2, C1p, C2p) ==
    IF C1p = 0 \/ C2p = 0 THEN h1 + h2
    ELSE IF Abs(h1 - h2) > Degrees(HUE_HALF_CIRCLE_DEGREES)
         THEN IF h1 + h2 < Degrees(HUE_CIRCLE_DEGREES)
              THEN (h1 + h2 + Degrees(HUE_CIRCLE_DEGREES)) \div 2
              ELSE (h1 + h2 - Degrees(HUE_CIRCLE_DEGREES)) \div 2
    ELSE (h1 + h2) \div 2

\* x ** 7
Pow7(x) == FMul(FMul(Sq(Sq(x)), Sq(x)), x)

\* c ** 7 / (c ** 7 + 25 ** 7), with numerator and denominator both divided
\* by 25 ** 7 so that the seventh powers stay in range
Pow7Ratio(c) ==
    LET x7 == Pow7(FDiv(c, DE2000_POW7_BASE * Unit))
    IN  FDiv(x7, x7 + Unit)

\* math.exp(-1)
EXP_MINUS_ONE == 367879

\* the Taylor series of math.exp(-f), 0 <= f < 1, from term k on
RECURSIVE ExpSeries(_, _, _)
ExpSeries(f, term, k) ==
    IF term = 0 THEN 0
    ELSE term + ExpSeries(f, -FDiv(FMul(term, f), k * Unit), k + 1)

\* EXP_MINUS_ONE ** n
RECURSIVE ExpPow(_)
ExpPow(n) == IF n = 0 THEN Unit ELSE FMul(EXP_MINUS_ONE, ExpPow(n - 1))

\* math.exp(-x) for x >= 0 (below half a millionth from x = 15 on)
ExpNeg(x) ==
    IF x >= 15 * Unit THEN 0
    ELSE FMul(ExpPow(x \div Unit), ExpSeries(x % Unit, Unit, 1))

\* delta_e_2000(lab1, lab2) with the default kL = kC = kH = 1
delta_e_2000(lab1, lab2) ==
    LET L1 == lab1[1] * 1000
        a1 == lab1[2] * 1000
        b1 == lab1[3] * 1000
        L2 == lab2[1] * 1000
        a2 == lab2[2] * 1000
        b2 == lab2[3] * 1000
        C_bar == (Chroma(a1, b1) + Chroma(a2, b2)) \div 2
        G == (Unit - MathSqrt(Pow7Ratio(C_bar))) \div 2
        a1p == FMul(Unit + G, a1)
        a2p == FMul(Unit + G, a2)
        C1p == Chroma(a1p, b1)
        C2p == Chroma(a2p, b2)
        h1p == _hp(a1p, b1)
        h2p == _hp(a2p, b2)
        dLp == L2 - L1
        dCp == C2p - C1p
        dh == h2p - h1p
        dhp == IF C1p = 0 \/ C2p = 0 THEN 0
               ELSE IF dh > Degrees(HUE_HALF_CIRCLE_DEGREES)
                    THEN dh - Degrees(HUE_CIRCLE_DEGREES)
               ELSE IF dh < -Degrees(HUE_HALF_CIRCLE_DEGREES)
                    THEN dh + Degrees(HUE_CIRCLE_DEGREES)
               ELSE dh
        dHp == 2 * FMul(MathSqrt(FMul(C1p, C2p)), SinDeg(Half(dhp)))
        Lp_bar == (L1 + L2) \div 2
        Cp_bar == (C1p + C2p) \div 2
        hp_bar == _mean_hue(h1p, h2p, C1p, C2p)
        T == NORMALIZED_MAX
             - FMul(DE2000_HUE_WEIGHT_1,
                    CosDeg(hp_bar - Degrees(DE2000_HUE_OFFSET_1)))
             + FMul(DE2000_HUE_WEIGHT_2, CosDeg(DE2000_HUE_MULT_2 * hp_bar))
             + FMul(DE2000_HUE_WEIGHT_3,
                    CosDeg(DE2000_HUE_MULT_3 * hp_bar
                           + Degrees(DE2000_HUE_OFFSET_3)))
             - FMul(DE2000_HUE_WEIGHT_4,
                    CosDeg(DE2000_HUE_MULT_4 * hp_bar
                           - Degrees(DE2000_HUE_OFFSET_4)))
        d_ro == DE2000_DRO_MULT
                * ExpNeg(Sq(FDiv(hp_bar - Degrees(DE2000_DRO_CENTER),
                                 DE2000_DRO_DIVISOR * Unit)))
        RC == 2 * MathSqrt(Pow7Ratio(Cp_bar))
        L_diff == Lp_bar - DE2000_L_OFFSET * Unit
        SL == NORMALIZED_MAX
              + FDiv(FMul(DE2000_L_WEIGHT, Sq(L_diff)),
                     MathSqrt(DE2000_L_DIVISOR * Unit + Sq(L_diff)))
        SC == NORMALIZED_MAX + FMul(DE2000_C_WEIGHT, Cp_bar)
        SH == NORMALIZED_MAX + FMul(FMul(DE2000_H_WEIGHT, Cp_bar), T)
        RT == -FMul(SinDeg(2 * d_ro), RC)
        tL == FDiv(dLp, SL)
        tC == FDiv(dCp, SC)
        tH == FDiv(dHp, SH)
        sum == Sq(tL) + Sq(tC) + Sq(tH) + FMul(FMul(RT, tC), tH)
    IN  IF sum < 0 THEN MathError ELSE Dist(MathSqrt(sum))

----------------------------------------------------------------------------
(* Palette.nearest_color *)

\* a faulty variant: the override test on ties is left out
StrictlyLess(recs, i, d, best_rec, best_d) == DLess(d, best_d)

\* a faulty variant: the first record is kept, no later record replaces it
FirstOnly(recs, i, d, best_rec, best_d) == best_rec = 0

\* the test that makes record r (at distance d) the new best
BetterThanBest(recs, i, d, best_rec, best_d) ==
    \/ DLess(d, best_d)
    \/ /\ d = best_d
       /\ best_rec # 0
       /\ _should_prefer_source(recs[i].source, recs[best_rec].source)

\* the loop "for r in self.records" from position i on; position 0 is None
RECURSIVE NearestLoop(_, _, _, _, _, _, _)
NearestLoop(recs, branch, fn, value, i, best_rec, best_d) ==
    IF i > Len(recs) THEN [rec |-> best_rec, d |-> best_d]
    ELSE LET d == RecordDistance(branch, fn, value, recs[i])
         IN  IF BetterThanBest(recs, i, d, best_rec, best_d)
             THEN NearestLoop(recs, branch, fn, value, i + 1, i, d)
             ELSE NearestLoop(recs, branch, fn, value, i + 1, best_rec, best_d)

NoList == << >>

\* an optional filter argument: None, one string, or a list of strings
NoneArg == [kind |-> "none", items |-> << >>]

StrArg(s) == [kind |-> "str", items |-> <<s>>]

ListArg(items) == [kind |-> "list", items |-> items]

\* the arguments of a query, kept with its outcome
Args(value, space, metric, count, maker, type_name, finish) ==
    [value |-> value, space |-> space, metric |-> metric, count |-> count,
     maker |-> maker, type_name |-> type_name, finish |-> finish]

PaletteArgs(value, space, metric, count) ==
    Args(value, space, metric, count, NoneArg, NoneArg, NoneArg)

\* the call returned: a (record, distance) pair or a list of such pairs
Returned(op, args, rec, d, list) ==
    [op |-> op, args |-> args, status |-> "ok", error |-> "", rec |-> rec,
     d |-> d, list |-> list, value |-> << >>]

\* an accessor of the record at position rec returned value
Value(op, rec, value) ==
    [op |-> op, args |-> PaletteArgs(<<0, 0, 0>>, "", "", 0), status |-> "ok",
     error |-> "", rec |-> rec, d |-> Inf, list |-> NoList, value |-> value]

\* the call raised ValueError; error names which one
Raised(op, args, error) ==
    [op |-> op, args |-> args, status |-> "raised", error |-> error, rec |-> 0,
     d |-> Inf, list |-> NoList, value |-> << >>]

NoResult == Returned("none", PaletteArgs(<<0, 0, 0>>, "", "", 0), 0, Inf, NoList)

nearest_color(recs, value, space, metric) ==
    LET branch == SpaceBranch(space)
        fn == IF branch = "lab" THEN PaletteMetricFn(lower(metric)) ELSE "none"
        best == NearestLoop(recs, branch, fn, value, 1, 0, Inf)
    IN  IF fn = "raise"
        THEN Raised("nearest_color", PaletteArgs(value, space, metric, 0),
                    "UnknownMetric")
        ELSE Returned("nearest_color", PaletteArgs(value, space, metric, 0),
                      best.rec, best.d, NoList)

----------------------------------------------------------------------------
(* Palette.nearest_colors *)

MAX_COUNT == 50

\* results.append((r, d)) for every record
RECURSIVE DistanceList(_, _, _, _, _)
DistanceList(recs, branch, fn, value, i) ==
    IF i > Len(recs) THEN << >>
    ELSE <<[rec |-> i, d |-> RecordDistance(branch, fn, value, recs[i])]>>
         \o DistanceList(recs, branch, fn, value, i + 1)

\* list.sort(key=lambda x: x[1]): a stable sort by distance alone
RECURSIVE InsertByD(_, _)
InsertByD(sorted, e) ==
    IF sorted = << >> THEN <<e>>
    ELSE IF DLess(e.d, Head(sorted).d) THEN <<e>> \o sorted
    ELSE <<Head(sorted)>> \o InsertByD(Tail(sorted), e)

RECURSIVE SortByD(_)
SortByD(list) ==
    IF list = << >> THEN << >>
    ELSE InsertByD(SortByD(SubSeq(list, 1, Len(list) - 1)), list[Len(list)])

\* results[:count]
Take(list, n) == SubSeq(list, 1, Min(n, Len(list)))

\* a faulty variant: the count is raised to 1 and never capped
NoCap(count) == Max(count, 1)

\* count = min(count, 50); count = max(count, 1)
ClampCount(count) == Max(Min(count, MAX_COUNT), 1)

nearest_colors(recs, value, space, metric, count) ==
    LET branch == SpaceBranch(space)
        fn == IF branch = "lab" THEN PaletteMetricFn(lower(metric)) ELSE "none"
    IN  IF fn = "raise"
        THEN Raised("nearest_colors", PaletteArgs(value, space, metric, count),
                    "UnknownMetric")
        ELSE Returned("nearest_colors", PaletteArgs(value, space, metric, count),
                      0, Inf,
                      Take(SortByD(DistanceList(recs, branch, fn, value, 1)),
                           ClampCount(count)))

----------------------------------------------------------------------------
(* Runtime configuration: ColorConfig(threading.local) *)

Threads == {"t1", "t2"}

MainThread == "t1"

\* a faulty variant: one storage for every thread, as a plain shared object
SharedSlot(t) == MainThread

\* threading.local: the attributes of _config live in the calling thread's
\* own storage
ThreadSlot(t) == t

DEFAULT_GAMUT_TOLERANCE == 10000
DEFAULT_GAMUT_MAX_ITERATIONS == 20

\* ColorConfig.__init__, run for each thread's storage
DefaultConfig ==
    [dual_color_mode |-> "first",
     gamut_tolerance |-> DEFAULT_GAMUT_TOLERANCE,
     gamut_max_iterations |-> DEFAULT_GAMUT_MAX_ITERATIONS]

\* _config.<attribute> read in thread t
ConfigGet(cfg, t, attribute) == cfg[ThreadSlot(t)][attribute]

\* _config.<attribute> = value executed in thread t
ConfigSet(cfg, t, attribute, value) ==
    [cfg EXCEPT ![ThreadSlot(t)][attribute] = value]

\* a faulty variant: one more mode is accepted
LenientModes == {"first", "last", "mix", "blend"}

\* mode not in ("first", "last", "mix")
VALID_MODES == {"first", "last", "mix"}

----------------------------------------------------------------------------
(* Hex text.  A string is the sequence of its characters. *)

\* int(c, 16) of one character, -1 where it raises ValueError
HexValue(c) ==
    CASE c = "0" -> 0 [] c = "1" -> 1 [] c = "2" -> 2 [] c = "3" -> 3
      [] c = "4" -> 4 [] c = "5" -> 5 [] c = "6" -> 6 [] c = "7" -> 7
      [] c = "8" -> 8 [] c = "9" -> 9
      [] c \in {"A", "a"} -> 10 [] c \in {"B", "b"} -> 11
      [] c \in {"C", "c"} -> 12 [] c \in {"D", "d"} -> 13
      [] c \in {"E", "e"} -> 14 [] c \in {"F", "f"} -> 15
      [] OTHER -> -1

\* str.lstrip(ch)
RECURSIVE lstrip(_, _)
lstrip(s, ch) ==
    IF s # << >> /\ Head(s) = ch THEN lstrip(Tail(s), ch) ELSE s

\* str.rstrip(ch)
RECURSIVE rstrip(_, _)
rstrip(s, ch) ==
    IF s # << >> /\ s[Len(s)] = ch
    THEN rstrip(SubSeq(s, 1, Len(s) - 1), ch)
    ELSE s

\* str.strip()
strip(s) == rstrip(lstrip(s, " "), " ")

\* str.split(sep), the piece being read in cur
RECURSIVE SplitFrom(_, _, _)
SplitFrom(s, sep, cur) ==
    IF s = << >> THEN <<cur>>
    ELSE IF Head(s) = sep THEN <<cur>> \o SplitFrom(Tail(s), sep, << >>)
    ELSE SplitFrom(Tail(s), sep, Append(cur, Head(s)))

split(s, sep) == SplitFrom(s, sep, << >>)

\* no RGB: the parse failed
ParseFailed == << >>

\* one hex code parsed to RGB: six hexadecimal digits after the leading '#'
hex_to_rgb(hex_part) ==
    LET h == lstrip(hex_part, "#")
    IN  IF Len(h) = 6 /\ \A k \in 1..6 : HexValue(h[k]) >= 0
        THEN <<16 * HexValue(h[1]) + HexValue(h[2]),
               16 * HexValue(h[3]) + HexValue(h[4]),
               16 * HexValue(h[5]) + HexValue(h[6])>>
        ELSE ParseFailed

\* a faulty variant: a code that does not parse gives white
OrWhite(parsed) == IF parsed = ParseFailed THEN <<255, 255, 255>> ELSE parsed

\* "result if result is not None else (0, 0, 0)", and the except clause
OrBlack(parsed) == IF parsed = ParseFailed THEN <<0, 0, 0>> ELSE parsed

----------------------------------------------------------------------------
(* FilamentRecord *)

None == "None"

FilamentRecord(id, maker, type, finish, color, hex, source) ==
    [id |-> id, maker |-> maker, type |-> type, finish |-> finish,
     color |-> color, hex |-> hex, source |-> source]

\* the two colours of a dual-colour hex, the first two pieces of the split
DualColors(hex_clean) ==
    LET hex_parts == split(hex_clean, "-")
    IN  [k \in 1..Min(2, Len(hex_parts)) |->
            OrBlack(hex_to_rgb(strip(hex_parts[k])))]

\* the average of two LAB triples, component by component
LabAverage(lab1, lab2) ==
    <<(lab1[1] + lab2[1]) \div 2, (lab1[2] + lab2[2]) \div 2,
      (lab1[3] + lab2[3]) \div 2>>

\* a faulty variant: the mode is ignored, the first colour is returned
IgnoreMode(rec, mode) == DualColors(strip(rec.hex))[1]

\* FilamentRecord.rgb, with get_dual_color_mode() returning mode
filament_rgb(rec, mode) ==
    LET hex_clean == strip(rec.hex)
    IN  IF \E k \in 1..Len(hex_clean) : hex_clean[k] = "-"
        THEN LET rgb_colors == DualColors(hex_clean)
             IN  IF Len(rgb_colors) < 2
                 THEN (IF rgb_colors # << >> THEN rgb_colors[1] ELSE <<0, 0, 0>>)
                 ELSE IF mode = "last" THEN rgb_colors[2]
                 ELSE IF mode = "mix"
                      THEN lab_to_rgb(LabAverage(rgb_to_lab(rgb_colors[1]),
                                                 rgb_to_lab(rgb_colors[2])),
                                      TRUE)
                 ELSE rgb_colors[1]
        ELSE OrBlack(hex_to_rgb(hex_clean))

FCyan == FilamentRecord("bambu-lab-pla-matte-cyan", "Bambu Lab", "PLA", "Matte",
                        "Cyan", <<"#", "0", "0", "F", "F", "F", "F">>,
                        "filaments.json")
\* a core filament of the same colour as FCyan
FAqua == FilamentRecord("prusament-petg-aqua", "Prusament", "PETG", None,
                        "Aqua", <<"#", "0", "0", "F", "F", "F", "F">>,
                        "filaments.json")
\* a user filament of the same colour as FCyan
FUserCyan == FilamentRecord("my-pla-cyan", "Bambu Lab", "PLA", "Matte", "Cyan",
                            <<"#", "0", "0", "f", "f", "f", "f">>,
                            "user-filaments.json")
\* "#000000-#FFFFFF"
FZebra == FilamentRecord("polymaker-pla-silk-zebra", "Polymaker", "PLA", "Silk",
                         "Zebra",
                         <<"#", "0", "0", "0", "0", "0", "0", "-",
                           "#", "F", "F", "F", "F", "F", "F">>,
                         "filaments.json")
\* " #FF0000 - #0000FF ": pure red and pure blue, with blanks around the codes
FNeon == FilamentRecord("my-pla-silk-neon", "Polymaker", "PLA", "Silk", "Neon",
                        <<" ", "#", "F", "F", "0", "0", "0", "0", " ", "-", " ",
                          "#", "0", "0", "0", "0", "F", "F", " ">>,
                        "user-filaments.json")

\* a filament as _parse_filament_records yields it from data parsed without a
\* file name
FRawCyan == FilamentRecord("raw-pla-cyan", "Bambu Lab", "PLA", "Matte", "Cyan",
                           <<"#", "0", "0", "F", "F", "F", "F">>, "unknown.json")

FilamentPool == {FCyan, FAqua, FUserCyan, FZebra, FNeon}

\* the filaments of the palettes whose overrides are reported
FilamentOverridePool == {FCyan, FUserCyan, FRawCyan, FZebra, FNeon}

\* filaments whose hex holds a code that does not parse: letters that are
\* not hexadecimal digits, a code of five digits, a missing second code
FGrid == FilamentRecord("polymaker-pla-grid", "Polymaker", "PLA", None, "Grid",
                        <<"#", "G", "G", "G", "G", "G", "G">>, "filaments.json")
FSmoke == FilamentRecord("my-petg-smoke", "Prusament", "PETG", "Matte", "Smoke",
                         <<"#", "1", "2", "3", "4", "5", "-",
                           "#", "F", "F", "F", "F", "F", "F">>,
                         "user-filaments.json")
FDusk == FilamentRecord("bambu-lab-pla-dusk", "Bambu Lab", "PLA", "Silk", "Dusk",
                        <<"#", "F", "F", "F", "F", "F", "F", "-">>,
                        "filaments.json")

MalformedPool == {FGrid, FSmoke, FDusk}

\* a series of grays, darkest first, long enough to pass the cap of the
\* best-N searches: the i-th has the channels GrayStep * (i - 1)
SeriesSize == 52
GrayStep == 4
GrayLevel(i) == GrayStep * (i - 1)

HexDigits ==
    <<"0", "1", "2", "3", "4", "5", "6", "7", "8", "9", "A", "B", "C", "D", "E",
      "F">>

\* "#vvvvvv" for the channel value v
GrayHex(v) ==
    LET hi == HexDigits[(v \div 16) + 1]
        lo == HexDigits[(v % 16) + 1]
    IN  <<"#", hi, lo, hi, lo, hi, lo>>

\* the i-th filament of the series; the last two come from the user file
GrayFilament(i) ==
    FilamentRecord("gray-" \o ToString(GrayLevel(i)), "Polymaker", "PLA", None,
                   "Gray " \o ToString(GrayLevel(i)), GrayHex(GrayLevel(i)),
                   IF i > SeriesSize - 2 THEN "user-filaments.json"
                   ELSE "filaments.json")

FilamentSeries(n) == [i \in 1..n |-> GrayFilament(i)]

\* the palettes scanned: malformed records next to well-formed ones
ScanLists == {q \in SeqsUpTo(MalformedPool \cup {FCyan, FZebra}, MaxFilaments) :
                 \E k \in DOMAIN q : q[k] \in MalformedPool}

FilamentLists == SeqsUpTo(FilamentPool, MaxFilaments)

\* the filaments of the pools and of the series
TabledFilaments ==
    FilamentPool \cup MalformedPool \cup {FRawCyan}
    \cup {GrayFilament(i) : i \in 1..SeriesSize}

\* self.rgb of each filament of the pools under each mode
FilamentRgbTable ==
    [rec \in TabledFilaments |->
        [mode \in {"first", "last", "mix"} |-> filament_rgb(rec, mode)]]

\* rgb_to_lab(self.rgb) of each filament of the pools under each mode
FilamentLabTable ==
    [rec \in TabledFilaments |->
        [mode \in {"first", "last", "mix"} |->
            rgb_to_lab(FilamentRgbTable[rec][mode])]]

\* FilamentRecord.lab: rgb_to_lab(self.rgb)
filament_lab(rec, mode) == FilamentLabTable[rec][mode]

----------------------------------------------------------------------------
(* FilamentPalette.__init__ *)

Range(seq) == {seq[k] : k \in DOMAIN seq}

\* the key of a filament in one of the five list indices
FilamentIndexKey(rec, index, mode) ==
    CASE index = "maker"  -> rec.maker
      [] index = "type"   -> rec.type
      [] index = "color"  -> lower(rec.color)
      [] index = "rgb"    -> FilamentRgbTable[rec][mode]
      [] index = "finish" -> rec.finish

\* d.setdefault(k, []).append(i)
ListAppend(d, k, i) ==
    IF k \in DOMAIN d THEN [d EXCEPT ![k] = Append(@, i)]
    ELSE DictPut(d, k, <<i>>)

\* one pass of the loop body for one index; the finish index skips a
\* filament without finish
FilamentIndexInsert(recs, d, i, index, mode) ==
    IF index = "finish" /\ recs[i].finish \in {None, ""} THEN d
    ELSE ListAppend(d, FilamentIndexKey(recs[i], index, mode), i)

RECURSIVE BuildFilamentIndexFrom(_, _, _, _, _)
BuildFilamentIndexFrom(recs, d, i, index, mode) ==
    IF i > Len(recs) THEN d
    ELSE LET after == FilamentIndexInsert(recs, d, i, index, mode)
         IN  \* the dictionary of a pass is complete before the next pass
             IF after = d
             THEN BuildFilamentIndexFrom(recs, d, i + 1, index, mode)
             ELSE BuildFilamentIndexFrom(recs, after, i + 1, index, mode)

BuildFilamentIndex(recs, index, mode) ==
    BuildFilamentIndexFrom(recs, EmptyDict, 1, index, mode)

\* maker_synonyms or {}
NoSynonyms == EmptyDict

BambuSynonyms == [canonical \in {"Bambu Lab"} |-> <<"Bambu", "BLL">>]

SynonymTables == {NoSynonyms, BambuSynonyms}

----------------------------------------------------------------------------
(* FilamentPalette.filter *)

\* a faulty variant: the names are taken without their synonyms
NoExpansion(makers, synonyms) == makers

_expand_maker_names(makers, synonyms) ==
    UNION {{maker}
           \cup (IF maker \in DOMAIN synonyms THEN Range(synonyms[maker]) ELSE {})
           \cup UNION {{canonical} \cup Range(synonyms[canonical]) :
                       canonical \in {c \in DOMAIN synonyms :
                                        maker \in Range(synonyms[c])}} :
           maker \in makers}

\* the set a filter argument stands for; none is TRUE for None
NoneSet == [none |-> TRUE, values |-> {}]

_normalize_filter_values(value) ==
    IF value.kind = "none" THEN NoneSet
    ELSE [none |-> FALSE, values |-> Range(value.items)]

\* the truth value of an optional set: neither None nor empty
Truthy(set) == ~set.none /\ set.values # {}

\* the elements of a set of positions in ascending order
RECURSIVE SortedSeq(_)
SortedSeq(S) ==
    IF S = {} THEN << >>
    ELSE LET m == CHOOSE x \in S : \A y \in S : x <= y
         IN  <<m>> \o SortedSeq(S \ {m})

\* the positions of the records that pass, in list order
filter(recs, synonyms, maker, type_name, finish, color) ==
    LET makers_in == _normalize_filter_values(maker)
        types_set == _normalize_filter_values(type_name)
        finishes_set == _normalize_filter_values(finish)
        makers_set == IF Truthy(makers_in)
                      THEN [none |-> FALSE,
                            values |-> _expand_maker_names(makers_in.values,
                                                           synonyms)]
                      ELSE makers_in
        has_color == color.kind = "str" /\ color.items[1] # ""
        Keep(i) ==
            /\ Truthy(makers_set) => recs[i].maker \in makers_set.values
            /\ Truthy(types_set) => recs[i].type \in types_set.values
            /\ Truthy(finishes_set) =>
                 /\ recs[i].finish \notin {None, ""}
                 /\ recs[i].finish \in finishes_set.values
            /\ has_color => lower(recs[i].color) = lower(color.items[1])
    IN  SortedSeq({i \in 1..Len(recs) : Keep(i)})

----------------------------------------------------------------------------
(* FilamentPalette.nearest_filament and nearest_filaments *)

\* the function the filament searches select for a lower-cased metric name,
\* "raise" when they raise ValueError("Unknown metric ...")
FilamentMetricFn(metric_l) ==
    IF metric_l \in {"de2000", "ciede2000"} THEN "delta_e_2000"
    ELSE IF metric_l \in {"de94", "cie94"} THEN "delta_e_94"
    ELSE IF metric_l \in {"de76", "cie76"} THEN "delta_e_76"
    ELSE IF metric_l = "euclidean" THEN "euclidean"
    ELSE IF metric_l \in {"cmc", "decmc"} THEN "delta_e_cmc"
    ELSE "raise"

\* a faulty variant: "*" is passed on as a filter value
KeepWildcard(arg) == arg

\* None if the argument is "*", else the argument
Wildcard(arg) == IF arg = StrArg("*") THEN NoneArg ELSE arg

\* the loop "for rec in candidates" from the k-th candidate on
RECURSIVE FilamentNearestLoop(_, _, _, _, _, _, _, _)
FilamentNearestLoop(recs, candidates, fn, target_lab, mode, k, best_rec, best_d) ==
    IF k > Len(candidates) THEN [rec |-> best_rec, d |-> best_d]
    ELSE LET i == candidates[k]
             d == DeltaE(fn, target_lab, filament_lab(recs[i], mode))
         IN  IF BetterThanBest(recs, i, d, best_rec, best_d)
             THEN FilamentNearestLoop(recs, candidates, fn, target_lab, mode,
                                      k + 1, i, d)
             ELSE FilamentNearestLoop(recs, candidates, fn, target_lab, mode,
                                      k + 1, best_rec, best_d)

nearest_filament(recs, synonyms, mode, target_rgb, metric, maker, type_name, finish) ==
    LET target_lab == rgb_to_lab(target_rgb)
        candidates == filter(recs, synonyms, Wildcard(maker),
                             Wildcard(type_name), Wildcard(finish), NoneArg)
        fn == FilamentMetricFn(lower(metric))
        best == FilamentNearestLoop(recs, candidates, fn, target_lab, mode, 1,
                                    0, Inf)
        args == Args(target_rgb, "", metric, 0, maker, type_name, finish)
    IN  IF candidates = << >>
        THEN Raised("nearest_filament", args, "NoCandidates")
        ELSE IF fn = "raise"
        THEN Raised("nearest_filament", args, "UnknownMetric")
        ELSE IF best.rec = 0
        THEN Raised("nearest_filament", args, "NoValidFilaments")
        ELSE Returned("nearest_filament", args, best.rec, best.d, NoList)

\* results.append((rec, d)) for every candidate
RECURSIVE FilamentDistanceList(_, _, _, _, _, _)
FilamentDistanceList(recs, candidates, fn, target_lab, mode, k) ==
    IF k > Len(candidates) THEN << >>
    ELSE <<[rec |-> candidates[k],
            d |-> DeltaE(fn, target_lab, filament_lab(recs[candidates[k]], mode))]>>
         \o FilamentDistanceList(recs, candidates, fn, target_lab, mode, k + 1)

nearest_filaments(recs, synonyms, mode, target_rgb, metric, count, maker, type_name, finish) ==
    LET target_lab == rgb_to_lab(target_rgb)
        candidates == filter(recs, synonyms, Wildcard(maker),
                             Wildcard(type_name), Wildcard(finish), NoneArg)
        fn == FilamentMetricFn(lower(metric))
        args == Args(target_rgb, "", metric, count, maker, type_name, finish)
    IN  IF candidates = << >>
        THEN Raised("nearest_filaments", args, "NoCandidates")
        ELSE IF fn = "raise"
        THEN Raised("nearest_filaments", args, "UnknownMetric")
        ELSE LET results == FilamentDistanceList(recs, candidates, fn,
                                                 target_lab, mode, 1)
             IN  IF results = << >>
                 THEN Raised("nearest_filaments", args, "NoValidFilaments")
                 ELSE Returned("nearest_filaments", args, 0, Inf,
                               Take(SortByD(results), ClampCount(count)))

----------------------------------------------------------------------------
(* Exact lookups *)

\* dict.get(k): the position held under k, 0 for None
DictGet(d, k) == IF k \in DOMAIN d THEN d[k] ELSE 0

\* dict.get(k, []): the positions held under k
DictGetList(d, k) == IF k \in DOMAIN d THEN d[k] ELSE << >>

\* a faulty variant: the name is looked up as it is written
FindExactCase(d, name) == DictGet(d, name)

\* Palette.find_by_name, d the index _by_name
find_by_name(d, name) == DictGet(d, lower(name))

\* Palette.find_by_rgb
find_by_rgb(d, rgb) == DictGet(d, rgb)

\* Palette.find_by_hsl, rounding left at its default
find_by_hsl(d, hsl) == DictGet(d, _rounded_key(hsl))

\* Palette.find_by_lab
find_by_lab(d, lab) == DictGet(d, _rounded_key(lab))

\* Palette.find_by_lch
find_by_lch(d, lch) == DictGet(d, _rounded_key(lch))

\* _ensure_list(value): a single string is wrapped
_ensure_list(value) == value.items

\* the lists held under the keys of order, one after the other
RECURSIVE ExtendAll(_, _)
ExtendAll(d, order) ==
    IF order = << >> THEN << >>
    ELSE DictGetList(d, Head(order)) \o ExtendAll(d, Tail(order))

\* "remove duplicates while preserving order"
RECURSIVE Unique(_, _)
Unique(list, seen) ==
    IF list = << >> THEN << >>
    ELSE IF Head(list) \in seen THEN Unique(Tail(list), seen)
    ELSE <<Head(list)>> \o Unique(Tail(list), seen \cup {Head(list)})

\* the orders in which a set of names can be iterated
Orders(S) == SeqsUpTo(S, Cardinality(S)) \cap [1..Cardinality(S) -> S]

\* FilamentPalette.find_by_maker, d the index _by_maker: the lists it can
\* return, one for each order in which the set of expanded names is iterated
find_by_maker(d, synonyms, maker) ==
    {Unique(ExtendAll(d, order), {}) :
        order \in Orders(_expand_maker_names(Range(_ensure_list(maker)),
                                             synonyms))}

\* FilamentPalette.find_by_type
find_by_type(d, type_name) == ExtendAll(d, _ensure_list(type_name))

\* FilamentPalette.find_by_color
find_by_color(d, color) == DictGetList(d, lower(color))

\* the strings of the filament records in code-point order
StrOrder ==
    <<"Aqua", "Bambu Lab", "Cyan", "Dusk", "Grid", "Neon", "PETG", "PLA",
      "Polymaker", "Prusament", "Smoke", "Zebra">>

StrRank(s) == CHOOSE k \in DOMAIN StrOrder : StrOrder[k] = s

\* str.startswith("user-") on the source tags
StartsWithUser(source) ==
    source \in {"user-colors.json", "user-filaments.json", "user-cga4",
                "user-mine", "user-cga4.json", "user-mine.json"}

\* a faulty variant: the key leaves the layer out
KeyWithoutLayer(r) == <<0, StrRank(r.maker), StrRank(r.type), StrRank(r.color)>>

\* the sort key of FilamentPalette.find_by_rgb
RgbSortKey(r) ==
    <<IF StartsWithUser(r.source) THEN 0 ELSE 1,
      StrRank(r.maker), StrRank(r.type), StrRank(r.color)>>

\* tuple comparison: a < b
RECURSIVE TupleLess(_, _)
TupleLess(a, b) ==
    IF a = << >> \/ b = << >> THEN a = << >> /\ b # << >>
    ELSE IF Head(a) # Head(b) THEN Head(a) < Head(b)
    ELSE TupleLess(Tail(a), Tail(b))

\* a stable insertion of position i into a list sorted by key
RECURSIVE InsertByKey(_, _, _)
InsertByKey(recs, sorted, i) ==
    IF sorted = << >> THEN <<i>>
    ELSE IF TupleLess(RgbSortKey(recs[i]), RgbSortKey(recs[Head(sorted)]))
         THEN <<i>> \o sorted
         ELSE <<Head(sorted)>> \o InsertByKey(recs, Tail(sorted), i)

\* sorted(matches, key=...)
RECURSIVE SortByKey(_, _)
SortByKey(recs, list) ==
    IF list = << >> THEN << >>
    ELSE InsertByKey(recs, SortByKey(recs, SubSeq(list, 1, Len(list) - 1)),
                     list[Len(list)])

\* FilamentPalette.find_by_rgb
find_filaments_by_rgb(recs, d, rgb) == SortByKey(recs, DictGetList(d, rgb))

\* the first of a non-empty set of positions
FirstOf(S) == CHOOSE x \in S : \A y \in S : x <= y

\* the sources of the records at the positions S, in list order
SourcesAt(recs, S) ==
    LET InS(i) == i \in S
        at == SelectSeq([i \in 1..Len(recs) |-> i], InS)
    IN  [n \in 1..Len(at) |-> recs[at[n]].source]

\* one group table of Palette.get_override_info: a key held by several
\* records, some core and some user, is mapped to
\* (core_records[0].source, user_records[0].source); the key stands for itself
\* where the code uses str(key)
OverridePairs(recs, index) ==
    LET group(k) == {i \in 1..Len(recs) : IndexKey(recs[i], index) = k}
        core_records(k) == {i \in group(k) : ~StartsWithUser(recs[i].source)}
        user_records(k) == {i \in group(k) : StartsWithUser(recs[i].source)}
    IN  [k \in {k \in {IndexKey(recs[i], index) : i \in 1..Len(recs)} :
                   /\ Cardinality(group(k)) > 1
                   /\ core_records(k) # {}
                   /\ user_records(k) # {}} |->
           <<recs[FirstOf(core_records(k))].source,
             recs[FirstOf(user_records(k))].source>>]

\* Palette.get_override_info: overrides["colors"]
get_override_info(recs) ==
    [name |-> OverridePairs(recs, "name"), rgb |-> OverridePairs(recs, "rgb")]

\* FilamentPalette.get_override_info, core_synonyms the content of the core
\* synonym file ({} when it is missing or unreadable)
get_filament_override_info(recs, synonyms, core_synonyms, mode) ==
    LET group(k) == {i \in 1..Len(recs) : FilamentRgbTable[recs[i]][mode] = k}
        core_records(k) == {i \in group(k) : ~StartsWithUser(recs[i].source)}
        user_records(k) == {i \in group(k) : StartsWithUser(recs[i].source)}
    IN  [rgb |->
           [k \in {k \in {FilamentRgbTable[recs[i]][mode] : i \in 1..Len(recs)} :
                      core_records(k) # {} /\ user_records(k) # {}} |->
              [core |-> SourcesAt(recs, core_records(k)),
               user |-> SourcesAt(recs, user_records(k))]],
         synonyms |->
           [maker \in {x \in DOMAIN synonyms \cap DOMAIN core_synonyms :
                          Range(synonyms[x]) # Range(core_synonyms[x])} |->
              [type |-> "replaced", old |-> core_synonyms[maker],
               new |-> synonyms[maker]]]]

\* FilamentPalette.find_by_finish
find_by_finish(d, finish) == ExtendAll(d, _ensure_list(finish))

\* the key of a lookup: a name argument, or a triple of numbers
NameKey(arg) == [arg |-> arg, nums |-> <<0, 0, 0>>]

NumKey(nums) == [arg |-> NoneArg, nums |-> nums]

\* a lookup returned one record (rec, 0 for None) or a list of records
Found(op, key, rec, list) == [op |-> op, key |-> key, rec |-> rec, list |-> list]

NoLookup == Found("none", NumKey(<<0, 0, 0>>), 0, << >>)

----------------------------------------------------------------------------
(* Loading.  A JSON row is a function from its keys to their values; hex   *)
(* text is a sequence of characters.  A source path is the sequence of its  *)
(* parts.  td_value and other_names, read with dict.get and never          *)
(* required, are left out of the records.                                  *)

\* what a parse or a load returns, and the ValueError it raises
Parsed(recs, log) ==
    [status |-> "ok", records |-> recs, log |-> log, error |-> "none",
     key |-> "none", index |-> -1, source_file |-> << >>]

ParseError(error, key, index, source_file) ==
    [status |-> "error", records |-> << >>, log |-> << >>, error |-> error,
     key |-> key, index |-> index, source_file |-> source_file]

\* Path(source_file).name, "unknown.json" for the default "JSON data"
source_filename(source_file) ==
    IF source_file = <<"JSON data">> THEN "unknown.json"
    ELSE source_file[Len(source_file)]

\* the keys of a colour row in the order the parser reads them
ColorKeyOrder == <<"rgb", "hsl", "lab", "lch", "name", "hex">>

\* the keys of a filament row read with f[...], in the order they are read
FilamentKeyOrder == <<"maker", "type", "color", "hex">>

NoDefect == [error |-> "none", key |-> "none"]

\* a faulty variant: whatever is wrong with a row, its first key is blamed
BlameFirstKey(row, order, k) ==
    IF \E j \in k..Len(order) :
          \/ order[j] \notin DOMAIN row
          \/ order[j] \in {"rgb", "hsl", "lab", "lch"} /\ Len(row[order[j]]) < 3
    THEN [error |-> "MissingKey", key |-> order[k]]
    ELSE NoDefect

\* the first exception reading the keys order[k], ... of a row raises:
\* KeyError for an absent key, IndexError for a triple of fewer than three
\* components
RECURSIVE RowDefect(_, _, _)
RowDefect(row, order, k) ==
    IF k > Len(order) THEN NoDefect
    ELSE IF order[k] \notin DOMAIN row
         THEN [error |-> "MissingKey", key |-> order[k]]
    ELSE IF order[k] \in {"rgb", "hsl", "lab", "lch"} /\ Len(row[order[k]]) < 3
         THEN [error |-> "InvalidData", key |-> "none"]
    ELSE RowDefect(row, order, k + 1)

\* c.get(key, default)
RowGet(row, key, default) == IF key \in DOMAIN row THEN row[key] ELSE default

\* _parse_color_records(data, source_file), from row i on (i counts from 1,
\* the index reported counts from 0)
RECURSIVE ParseColorsFrom(_, _, _, _)
ParseColorsFrom(data, source_file, i, recs) ==
    IF i > Len(data) THEN Parsed(recs, << >>)
    ELSE LET c == data[i]
             defect == RowDefect(c, ColorKeyOrder, 1)
         IN  IF defect.error # "none"
             THEN ParseError(defect.error, defect.key, i - 1, source_file)
             ELSE ParseColorsFrom(data, source_file, i + 1,
                    Append(recs,
                           ColorRecord(c["name"], c["hex"], c["rgb"], c["hsl"],
                                       c["lab"], c["lch"],
                                       source_filename(source_file))))

_parse_color_records(data, source_file) ==
    ParseColorsFrom(data, source_file, 1, << >>)

\* _parse_filament_records(data, source_file), from row i on
RECURSIVE ParseFilamentsFrom(_, _, _, _)
ParseFilamentsFrom(data, source_file, i, recs) ==
    IF i > Len(data) THEN Parsed(recs, << >>)
    ELSE LET f == data[i]
             defect == RowDefect(f, FilamentKeyOrder, 1)
         IN  IF defect.error # "none"
             THEN ParseError(defect.error, defect.key, i - 1, source_file)
             ELSE ParseFilamentsFrom(data, source_file, i + 1,
                    Append(recs,
                           FilamentRecord(RowGet(f, "id", ""), f["maker"],
                                          f["type"], RowGet(f, "finish", None),
                                          f["color"], f["hex"],
                                          source_filename(source_file))))

_parse_filament_records(data, source_file) ==
    ParseFilamentsFrom(data, source_file, 1, << >>)

\* a JSON file of the data directory: absent, or holding a root value that
\* is a list of rows or something else
NoFile == [exists |-> FALSE, is_list |-> FALSE, rows |-> << >>]
JsonList(rows) == [exists |-> TRUE, is_list |-> TRUE, rows |-> rows]
JsonObject == [exists |-> TRUE, is_list |-> FALSE, rows |-> << >>]

DataDir == "data"
COLORS_JSON_FILENAME == "colors.json"
USER_COLORS_JSON_FILENAME == "user-colors.json"
FILAMENTS_JSON_FILENAME == "filaments.json"
USER_FILAMENTS_JSON_FILENAME == "user-filaments.json"

\* the positions of user_records for which Hit(user_record) holds, in order
Hits(user_records, Hit(_)) ==
    SelectSeq([k \in DOMAIN user_records |-> k], LAMBDA k : Hit(user_records[k]))

\* the logger.info calls of a load: one entry for each non-empty override list
OverrideLog(kind1, overrides1, kind2, overrides2) ==
    (IF overrides1 # << >>
     THEN <<[kind |-> kind1, overrides |-> overrides1]>> ELSE << >>)
    \o (IF overrides2 # << >>
        THEN <<[kind |-> kind2, overrides |-> overrides2]>> ELSE << >>)

\* the overrides load_colors detects: user records whose lower-cased name is
\* that of a core record, and user records whose RGB is that of a core record
\* (the last one with that RGB) of another name
ColorOverrideLog(core, user_records) ==
    LET LastWithRgb(v) ==
            core[CHOOSE k \in DOMAIN core :
                    /\ core[k].rgb = v
                    /\ \A j \in DOMAIN core : core[j].rgb = v => j <= k]
        ByName(u) == \E k \in DOMAIN core :
                        lower(core[k].name) = lower(u.name)
        ByRgb(u) == /\ \E k \in DOMAIN core : core[k].rgb = u.rgb
                    /\ lower(LastWithRgb(u.rgb).name) # lower(u.name)
    IN  IF user_records = << >> THEN << >>
        ELSE OverrideLog("name", Hits(user_records, ByName),
                         "rgb", Hits(user_records, ByRgb))

\* a faulty variant: the user records are put before the core records
UserFirst(core, user_records) == user_records \o core

\* records.extend(user_records)
Extend(core, user_records) == core \o user_records

\* load_colors(json_path) for a directory holding the files core and user
load_colors(core, user) ==
    LET json_path == <<DataDir, COLORS_JSON_FILENAME>>
        user_json_path == <<DataDir, USER_COLORS_JSON_FILENAME>>
        parsed == _parse_color_records(core.rows, json_path)
        user_parsed == _parse_color_records(user.rows, user_json_path)
    IN  IF ~core.exists THEN ParseError("FileNotFound", "none", -1, json_path)
        ELSE IF ~core.is_list
             THEN ParseError("ExpectedArray", "none", -1, json_path)
        ELSE IF parsed.status # "ok" THEN parsed
        ELSE IF ~user.exists THEN parsed
        ELSE IF ~user.is_list
             THEN ParseError("ExpectedArray", "none", -1, user_json_path)
        ELSE IF user_parsed.status # "ok" THEN user_parsed
        ELSE Parsed(Extend(parsed.records, user_parsed.records),
                    ColorOverrideLog(parsed.records, user_parsed.records))

\* the overrides load_filaments detects: user records whose maker, type,
\* color and hex are those of a core record and, among the others, user
\* records whose RGB (under the mode in force) is that of a core record
FilamentOverrideLog(core, user_records, mode) ==
    LET Exact(u) == \E k \in DOMAIN core :
                       <<core[k].maker, core[k].type, core[k].color, core[k].hex>>
                       = <<u.maker, u.type, u.color, u.hex>>
        ByRgb(u) == /\ ~Exact(u)
                    /\ \E k \in DOMAIN core :
                          filament_rgb(core[k], mode) = filament_rgb(u, mode)
    IN  IF user_records = << >> THEN << >>
        ELSE OverrideLog("exact", Hits(user_records, Exact),
                         "rgb", Hits(user_records, ByRgb))

\* load_filaments(json_path) for a directory holding the files core and user
load_filaments(core, user, mode) ==
    LET json_path == <<DataDir, FILAMENTS_JSON_FILENAME>>
        user_json_path == <<DataDir, USER_FILAMENTS_JSON_FILENAME>>
        parsed == _parse_filament_records(core.rows, json_path)
        user_parsed == _parse_filament_records(user.rows, user_json_path)
    IN  IF ~core.exists THEN ParseError("FileNotFound", "none", -1, json_path)
        ELSE IF ~core.is_list
             THEN ParseError("ExpectedArray", "none", -1, json_path)
        ELSE IF parsed.status # "ok" THEN parsed
        ELSE IF ~user.exists THEN parsed
        ELSE IF ~user.is_list
             THEN ParseError("ExpectedArray", "none", -1, user_json_path)
        ELSE IF user_parsed.status # "ok" THEN user_parsed
        ELSE Parsed(Extend(parsed.records, user_parsed.records),
                    FilamentOverrideLog(parsed.records, user_parsed.records,
                                        mode))

\* loaded: the last call of a parser or a loader, its arguments and outcome
Load(op, args, out) == [op |-> op, args |-> args, out |-> out]

\* the palette names of the model, in sorted order
PaletteNameOrder == <<"cga4", "mine", "user-cga4", "user-mine">>

PaletteNames == Range(PaletteNameOrder)

\* a load_palette that returned Palette(records) built from the file at path
PaletteLoaded(path, recs) ==
    [status |-> "ok", path |-> path, records |-> recs, error |-> "none",
     available |-> << >>, note |-> FALSE]

\* a load_palette that raised: FileNotFoundError with the names listed and
\* the note on a file lacking the prefix, or ValueError for the file at path
PaletteError(error, path, available, note) ==
    [status |-> "error", path |-> path, records |-> << >>, error |-> error,
     available |-> available, note |-> note]

\* a faulty variant: the user directory is tried first for every name
UserDirFirst(name, core_dir, user_dir) ==
    IF user_dir[name].exists
    THEN <<DataDir, "user", "palettes", name \o ".json">>
    ELSE IF core_dir[name].exists THEN <<DataDir, "palettes", name \o ".json">>
    ELSE << >>

\* palette_file: the one location tried for the name, << >> for None
PaletteFile(name, core_dir, user_dir) ==
    IF StartsWithUser(name)
    THEN IF user_dir[name].exists
         THEN <<DataDir, "user", "palettes", name \o ".json">> ELSE << >>
    ELSE IF core_dir[name].exists
         THEN <<DataDir, "palettes", name \o ".json">> ELSE << >>

\* the stems listed by the error: every file of palettes, the user-*.json
\* files of user/palettes, sorted
RECURSIVE AvailableFrom(_, _, _)
AvailableFrom(core_dir, user_dir, k) ==
    IF k > Len(PaletteNameOrder) THEN << >>
    ELSE LET name == PaletteNameOrder[k]
         IN  (IF core_dir[name].exists THEN <<name>> ELSE << >>)
             \o (IF user_dir[name].exists /\ StartsWithUser(name)
                 THEN <<name>> ELSE << >>)
             \o AvailableFrom(core_dir, user_dir, k + 1)

\* load_palette(name), given the files of the two palette directories
load_palette(name, core_dir, user_dir) ==
    LET palette_file == PaletteFile(name, core_dir, user_dir)
        data == IF palette_file[2] = "user" THEN user_dir[name]
                ELSE core_dir[name]
        parsed == _parse_color_records(data.rows, palette_file)
    IN  IF palette_file = << >>
        THEN PaletteError("FileNotFound", << >>,
                          AvailableFrom(core_dir, user_dir, 1),
                          ~StartsWithUser(name) /\ user_dir[name].exists)
        ELSE IF ~data.is_list
        THEN PaletteError("ExpectedArray", palette_file, << >>, FALSE)
        ELSE IF parsed.status # "ok"
        THEN PaletteError(parsed.error, palette_file, << >>, FALSE)
        ELSE PaletteLoaded(palette_file, parsed.records)

\* a synonym file: a JSON object from maker names to lists of synonyms
NoSynonymFile == [exists |-> FALSE, table |-> EmptyDict]

SynonymFile(table) == [exists |-> TRUE, table |-> table]

\* a faulty variant: the user list always replaces the core list
AlwaysReplace(core_list, user_syn_list) == user_syn_list

\* the body of the merge loop for a maker of both files: the list the maker
\* has after it
MergedList(core_list, user_syn_list) ==
    LET existing == Range(core_list)
        new_synonyms == Range(user_syn_list)
        IsNew(syn) == syn \notin existing
    IN  IF existing = new_synonyms THEN core_list
        ELSE IF existing \cap new_synonyms = {} THEN user_syn_list
        ELSE core_list \o SelectSeq(user_syn_list, IsNew)

\* load_maker_synonyms, given the content of maker_synonyms.json and of
\* user-synonyms.json: the merged table and the makers logged as overridden
\* and as extended
load_maker_synonyms(core, user) ==
    LET synonyms == IF core.exists THEN core.table ELSE EmptyDict
        user_synonyms == user.table
        both == DOMAIN synonyms \cap DOMAIN user_synonyms
        merged ==
          [maker \in DOMAIN synonyms \cup DOMAIN user_synonyms |->
             IF maker \notin DOMAIN user_synonyms THEN synonyms[maker]
             ELSE IF maker \notin DOMAIN synonyms THEN user_synonyms[maker]
             ELSE MergedList(synonyms[maker], user_synonyms[maker])]
    IN  IF ~user.exists
        THEN [synonyms |-> synonyms, overridden |-> {}, extended |-> {}]
        ELSE [synonyms |-> merged,
              overridden |->
                {maker \in both :
                   /\ Range(synonyms[maker]) # Range(user_synonyms[maker])
                   /\ Range(synonyms[maker]) \cap Range(user_synonyms[maker]) = {}},
              extended |->
                {maker \in both : Len(merged[maker]) > Len(synonyms[maker])
                                  /\ Range(synonyms[maker])
                                       \cap Range(user_synonyms[maker]) # {}}]

----------------------------------------------------------------------------
(* Inputs *)

\* the space strings passed to the colour palette searches
Spaces == {"rgb", "RGB", "hsl", "lch", "lab", "xyz"}

\* the metric strings tried with a space: the LAB branch alone reads the metric
MetricsFor(space) ==
    IF SpaceBranch(space) = "lab" THEN {"de76", "DE76", "bogus"}
    ELSE {"de76", "bogus"}

Counts == {0, 2}

\* query values: RGB triples for the RGB branch, thousandths for the others
QueryValues(space) ==
    CASE SpaceBranch(space) = "rgb" -> {<<200, 200, 200>>, <<0, 255, 255>>}
      [] SpaceBranch(space) = "hsl" ->
           {<<180000, 100000, 50000>>, <<359000, 50000, 75000>>}
      [] SpaceBranch(space) = "lch" ->
           {<<91113, 50121, 196376>>, <<359000, 50000, 75000>>}
      [] SpaceBranch(space) = "lab" ->
           {<<91113, -48088, -14131>>, <<50000, 10000, -20000>>}


\* the maker, type_name and finish arguments of a filament search
FilterArgs ==
    {<<NoneArg, NoneArg, NoneArg>>,
     <<StrArg("*"), StrArg("*"), StrArg("*")>>,
     <<StrArg("*"), StrArg("PLA"), StrArg("*")>>,
     <<StrArg("Bambu"), NoneArg, NoneArg>>,
     <<ListArg(<<"Polymaker", "Prusament">>), NoneArg, ListArg(<< >>)>>,
     <<NoneArg, StrArg("PLA"), StrArg("Silk")>>,
     <<StrArg("Nobody"), NoneArg, NoneArg>>}

\* the searches made on a filament palette: target, metric and filters
FilamentQueries ==
    (TargetRgbs \X {"de76"} \X FilterArgs)
    \cup ({<<0, 255, 255>>} \X {"euclidean", "bogus"}
          \X {<<NoneArg, NoneArg, NoneArg>>,
              <<StrArg("Nobody"), NoneArg, NoneArg>>})

\* the keys of the exact lookups: some held by a record, some by none
NameKeys == {"cyan", "Cyan", "AQUA", "teal"}

RgbKeys == {<<0, 255, 255>>, <<0, 0, 0>>, <<1, 2, 3>>}

HslKeys == {<<180000, 100000, 50000>>, <<180004, 99996, 50001>>,
            <<10000, 10000, 10000>>}

LabKeys == {<<91113, -48088, -14131>>, <<91114, -48087, -14129>>,
            <<1000, 1000, 1000>>}

LchKeys == {<<91113, 50121, 196376>>, <<91114, 50119, 196374>>,
            <<1000, 1000, 1000>>}

MakerKeys ==
    {StrArg("Bambu"), StrArg("Bambu Lab"), StrArg("BLL"), StrArg("Nobody"),
     ListArg(<<"Polymaker", "Prusament">>), ListArg(<<"Bambu", "Prusament">>)}

TypeKeys == {StrArg("PLA"), StrArg("ABS"), ListArg(<<"PETG", "ABS">>)}

ColorKeys == {"cyan", "Cyan", "teal"}

FinishKeys == {StrArg("Matte"), StrArg("Gloss"), ListArg(<<"Silk", "Matte">>)}

\* the modes passed to set_dual_color_mode; "blend" is not one of the three
ModeArgs == VALID_MODES \cup {"blend"}

GamutTolerances == {DEFAULT_GAMUT_TOLERANCE, 3 * (Unit \div 2)}

IterationCaps == {DEFAULT_GAMUT_MAX_ITERATIONS, 6}

\* an optional integer argument
NoInt == [given |-> FALSE, v |-> 0]

SomeInt(n) == [given |-> TRUE, v |-> n]

MaxIterationArgs == {NoInt, SomeInt(-1), SomeInt(0), SomeInt(1)}

\* LAB inputs of the gamut mapper, in thousandths
GamutLabs ==
    {<<50000, 0, 0>>, <<50000, 100000, 0>>, <<50000, -100000, 50000>>,
     <<90000, -80000, 90000>>, <<100000, 50000, 0>>, <<0, 50000, 0>>,
     <<60000, 0, -120000>>, <<30000, 90000, -110000>>, <<100000, 0, 50000>>,
     <<70000, -60000, -60000>>, <<120000, 30000, 30000>>, <<120000, 0, 0>>}

\* the i-th colour of the series of grays, with the values a colour file
\* holds for it; the last two come from the user file
GrayColor(i) ==
    LET v == GrayLevel(i)
        lab == rgb_to_lab(<<v, v, v>>)
    IN  ColorRecord("gray" \o ToString(v), GrayHex(v), <<v, v, v>>,
                    <<0, 0, (v * 100000 + 127) \div 255>>, lab, lab_to_lch(lab),
                    IF i > SeriesSize - 2 THEN "user-colors.json"
                    ELSE "colors.json")

\* the series, computed once
GrayColors == [i \in 1..SeriesSize |-> GrayColor(i)]

ColorSeries(n) == [i \in 1..n |-> GrayColors[i]]

\* the lengths of the palettes searched for the best N: none, fewer than the
\* cap, the cap, more than the cap
SeriesLengths == {0, 1, 2, MAX_COUNT - 1, MAX_COUNT, MAX_COUNT + 1, SeriesSize}

\* the counts asked for
BestCounts ==
    {-3, 0, 1, 2, MAX_COUNT - 1, MAX_COUNT, MAX_COUNT + 1, 2 * MAX_COUNT}

\* the searches made on a series: value, space and metric
SeriesQueries ==
    {<<<<200, 200, 200>>, "rgb", "de76">>, <<<<0, 0, 0>>, "rgb", "de76">>,
     <<<<50000, 0, 0>>, "lab", "de76">>, <<<<0, 0, 30000>>, "hsl", "de76">>}

\* the filters of the searches made on a series of filaments
SeriesFilters ==
    {<<NoneArg, NoneArg, NoneArg>>, <<StrArg("Polymaker"), StrArg("*"), NoneArg>>,
     <<StrArg("Nobody"), NoneArg, NoneArg>>}

\* the JSON row of a colour record, with the hex text as the file spells it
ColorRow(rec, hex) ==
    [name |-> rec.name, hex |-> hex, rgb |-> rec.rgb, hsl |-> rec.hsl,
     lab |-> rec.lab, lch |-> rec.lch]

\* the JSON row of a filament record
FilamentRow(rec) ==
    [id |-> rec.id, maker |-> rec.maker, type |-> rec.type,
     finish |-> rec.finish, color |-> rec.color, hex |-> rec.hex]

\* a row without the key key
Drop(row, key) == [k \in DOMAIN row \ {key} |-> row[k]]

\* a row whose triple under key has lost its third component
Shorten(row, key) ==
    [k \in DOMAIN row |-> IF k = key THEN SubSeq(row[k], 1, 2) ELSE row[k]]

BlackRow == ColorRow(Black, <<"#", "0", "0", "0", "0", "0", "0">>)
CyanRow == ColorRow(Cyan, <<"#", "0", "0", "F", "F", "F", "F">>)
MagentaRow == ColorRow(Magenta, <<"#", "F", "F", "0", "0", "F", "F">>)
AquaRow == ColorRow(Aqua, <<"#", "0", "0", "F", "F", "F", "F">>)
\* user rows: "Cyan" spelt "#00ffff", "AQUA" spelt " #00FFFF"
UserCyanRow == ColorRow(UserCyan, <<"#", "0", "0", "f", "f", "f", "f">>)
UserAquaRow == ColorRow(UserAqua, <<" ", "#", "0", "0", "F", "F", "F", "F">>)
\* a user row of a new name with the RGB of black
InkRow == [ColorRow(Black, <<"#", "0", "0", "0", "0", "0", "0">>)
             EXCEPT !.name = "Ink"]

\* the colors.json files loaded: absent, not a list, complete rows, and rows
\* with an absent key or a short triple at the first, second or third place
CoreColorFiles ==
    {NoFile, JsonObject, JsonList(<< >>),
     JsonList(<<CyanRow, BlackRow>>),
     JsonList(<<BlackRow, CyanRow, AquaRow>>),
     JsonList(<<CyanRow, Drop(MagentaRow, "hsl")>>),
     JsonList(<<Shorten(BlackRow, "rgb"), CyanRow>>),
     JsonList(<<BlackRow, AquaRow, Drop(Drop(CyanRow, "name"), "hex")>>)}

\* the user-colors.json files loaded
UserColorFiles ==
    {NoFile, JsonObject, JsonList(<< >>),
     JsonList(<<UserCyanRow>>),
     JsonList(<<UserAquaRow, UserCyanRow>>),
     JsonList(<<InkRow>>),
     JsonList(<<UserCyanRow, Drop(UserAquaRow, "lab")>>),
     JsonList(<<Shorten(InkRow, "lch")>>)}

\* the filaments.json files loaded
CoreFilamentFiles ==
    {NoFile, JsonObject, JsonList(<< >>),
     JsonList(<<FilamentRow(FCyan), FilamentRow(FZebra)>>),
     JsonList(<<FilamentRow(FZebra), FilamentRow(FAqua), FilamentRow(FCyan)>>),
     JsonList(<<FilamentRow(FCyan), Drop(FilamentRow(FAqua), "maker")>>),
     JsonList(<<Drop(FilamentRow(FZebra), "hex"), FilamentRow(FCyan)>>),
     JsonList(<<Drop(Drop(FilamentRow(FAqua), "type"), "color")>>)}

\* the user-filaments.json files loaded: rows without id or finish, a row
\* equal to a core row, a row of the same RGB, rows with an absent key
UserFilamentFiles ==
    {NoFile, JsonObject, JsonList(<< >>),
     JsonList(<<Drop(FilamentRow(FUserCyan), "id")>>),
     JsonList(<<FilamentRow(FNeon), Drop(FilamentRow(FCyan), "finish")>>),
     JsonList(<<FilamentRow(FCyan)>>),
     JsonList(<<FilamentRow(FNeon), Drop(FilamentRow(FUserCyan), "color")>>),
     JsonList(<<Drop(FilamentRow(FNeon), "hex")>>)}

\* the source_file arguments of the parsers called on their own
SourceFiles(name) == {<<"JSON data">>, <<DataDir, name>>}

\* the rows of the palette files, different for every file
CorePaletteRows ==
    [name \in PaletteNames |->
       CASE name = "cga4" -> <<BlackRow, CyanRow>>
         [] name = "mine" -> <<MagentaRow>>
         [] name = "user-cga4" -> <<AquaRow>>
         [] name = "user-mine" -> <<InkRow>>]

UserPaletteRows ==
    [name \in PaletteNames |->
       CASE name = "cga4" -> <<UserCyanRow>>
         [] name = "mine" -> <<UserAquaRow>>
         [] name = "user-cga4" -> <<UserCyanRow, UserAquaRow>>
         [] name = "user-mine" -> <<InkRow, Drop(BlackRow, "lab")>>]

\* the content of data/palettes and of data/user/palettes: the file, if any,
\* of each palette name
CorePaletteDirs ==
    {[name \in PaletteNames |->
        IF name \in present THEN JsonList(CorePaletteRows[name]) ELSE NoFile] :
       present \in SUBSET PaletteNames}

UserPaletteDirs ==
    {[name \in PaletteNames |->
        IF name \notin present THEN NoFile
        ELSE IF name = "user-mine" /\ broken THEN JsonObject
        ELSE JsonList(UserPaletteRows[name])] :
       present \in SUBSET PaletteNames, broken \in BOOLEAN}

\* the maker_synonyms.json files loaded
CoreSynonymFiles ==
    {NoSynonymFile, SynonymFile(EmptyDict), SynonymFile(BambuSynonyms),
     SynonymFile(("Bambu Lab" :> <<"Bambu", "BLL">>)
                 @@ ("Polymaker" :> <<"Poly">>)),
     SynonymFile("Bambu Lab" :> << >>)}

\* the user-synonyms.json files loaded
UserSynonymFiles ==
    {NoSynonymFile, SynonymFile(EmptyDict),
     SynonymFile("Bambu Lab" :> <<"BLL", "Bambu">>),
     SynonymFile("Bambu Lab" :> <<"BBL">>),
     SynonymFile("Bambu Lab" :> <<"BBL", "Bambu", "Bambulab">>),
     SynonymFile("Bambu Lab" :> <<"Bambu", "BBL", "BBL">>),
     SynonymFile("Bambu Lab" :> << >>),
     SynonymFile("Prusament" :> <<"Prusa">>),
     SynonymFile(("Bambu Lab" :> <<"BBL">>) @@ ("Prusament" :> <<"Prusa">>)),
     SynonymFile(("Polymaker" :> <<"PM", "Poly">>)
                 @@ ("Prusament" :> <<"Prusa">>))}

\* the LAB values the Delta E formulas are applied to, in thousandths: three
\* lightnesses on both sides of the CMC threshold 16, grays (a = b = 0) and
\* hues in and out of the CMC range 164 .. 345 degrees
LabLevels == {10000, 20000, 30000}
LabAxis == {-8000, 0, 6000}
LabPoints == {<<l, a, b>> : l \in LabLevels, a \in LabAxis, b \in LabAxis}

\* the RGB values euclidean is applied to
RgbPoints == {<<0, 0, 0>>, <<255, 255, 255>>, <<10, 200, 30>>, <<128, 128, 128>>}

\* the hues hue_diff_deg is applied to, thousandths of a degree in [0, 360)
HuePoints ==
    {0, 1000, 90000, 179999, 180000, 180001, 270000, 359000, 359999}

\* the HSL / LCH values hsl_euclidean is applied to
HslPoints ==
    {<<h, 50000, l>> : h \in {0, 1000, 180000, 359000}, l \in {0, 50000}}

----------------------------------------------------------------------------
(* Initial state *)

\* the values a thread that has set nothing is documented to read:
\* "first", 0.01 and 20
DocumentedDefaults ==
    [dual_color_mode |-> "first", gamut_tolerance |-> Unit \div 100,
     gamut_max_iterations |-> 20]

NoReads ==
    [dual_color_mode |-> {}, gamut_tolerance |-> {}, gamut_max_iterations |-> {}]

\* placeholders until a distance is computed or a directory loaded
\* measured: the last call of a distance function: its name, its two
\* arguments and what it returned
Call(fn, a, b, out) == [fn |-> fn, a |-> a, b |-> b, out |-> out]

NoMeasure == Call("none", << >>, << >>, MathError)

NoLoad == Load("none", << >>, Parsed(<< >>, << >>))

GamutIdle ==
    [pc |-> "idle", lab |-> <<0, 0, 0>>, max_iterations |-> 0, L |-> 0,
     C |-> 0, h |-> 0, min_c |-> 0, max_c |-> 0, i |-> 0, out |-> <<0, 0, 0>>]

Init ==
    /\ records = << >>
    /\ by_name = EmptyDict
    /\ by_rgb = EmptyDict
    /\ by_hsl = EmptyDict
    /\ by_lab = EmptyDict
    /\ by_lch = EmptyDict
    /\ built = FALSE
    /\ filaments = << >>
    /\ maker_synonyms = NoSynonyms
    /\ filament_index = [index \in {"maker", "type", "color", "rgb", "finish"}
                            |-> EmptyDict]
    /\ fbuilt = FALSE
    /\ result = NoResult
    /\ config = [slot \in Threads |-> DefaultConfig]
    /\ last_set = [t \in Threads |-> DocumentedDefaults]
    /\ reading = [t \in Threads |-> NoReads]
    /\ gamut = GamutIdle
    /\ lookup = NoLookup
    /\ measured = NoMeasure
    /\ loaded = NoLoad

----------------------------------------------------------------------------
(* The colour palette: construction and queries *)

\* Palette(records)
PaletteInit(recs) ==
    /\ ~built /\ ~fbuilt
    /\ result.op = "none"
    /\ records' = recs
    /\ by_name' = BuildIndex(recs, "name")
    /\ by_rgb' = BuildIndex(recs, "rgb")
    /\ by_hsl' = BuildIndex(recs, "hsl")
    /\ by_lab' = BuildIndex(recs, "lab")
    /\ by_lch' = BuildIndex(recs, "lch")
    /\ built' = TRUE
    /\ UNCHANGED <<filVars, result, cfgVars, gamut, qryVars>>

\* palette.nearest_color(value, space, metric)
NearestColor(value, space, metric) ==
    /\ built
    /\ result.op = "none"
    /\ result' = nearest_color(records, value, space, metric)
    /\ UNCHANGED <<palVars, filVars, cfgVars, gamut, qryVars>>

\* palette.nearest_colors(value, space, metric, count)
NearestColors(value, space, metric, count) ==
    /\ built
    /\ result.op = "none"
    /\ result' = nearest_colors(records, value, space, metric, count)
    /\ UNCHANGED <<palVars, filVars, cfgVars, gamut, qryVars>>

----------------------------------------------------------------------------
(* The filament palette: construction and queries, in the main thread *)

\* FilamentPalette(records, maker_synonyms)
FilamentPaletteInit(recs, synonyms) ==
    /\ ~built /\ ~fbuilt
    /\ result.op = "none"
    /\ filaments' = recs
    /\ maker_synonyms' = synonyms
    /\ filament_index' =
         [index \in {"maker", "type", "color", "rgb", "finish"} |->
            BuildFilamentIndex(recs, index,
                               ConfigGet(config, MainThread, "dual_color_mode"))]
    /\ fbuilt' = TRUE
    /\ UNCHANGED <<palVars, result, cfgVars, gamut, qryVars>>

\* palette.nearest_filament(target_rgb, metric, maker=, type_name=, finish=)
NearestFilament(target_rgb, metric, f) ==
    /\ fbuilt
    /\ result.op = "none"
    /\ result' = nearest_filament(filaments, maker_synonyms,
                                  ConfigGet(config, MainThread, "dual_color_mode"),
                                  target_rgb, metric, f[1], f[2], f[3])
    /\ UNCHANGED <<palVars, filVars, cfgVars, gamut, qryVars>>

\* palette.nearest_filaments(target_rgb, metric, count, maker=, type_name=,
\* finish=)
NearestFilaments(target_rgb, metric, count, f) ==
    /\ fbuilt
    /\ result.op = "none"
    /\ result' = nearest_filaments(filaments, maker_synonyms,
                                   ConfigGet(config, MainThread, "dual_color_mode"),
                                   target_rgb, metric, count, f[1], f[2], f[3])
    /\ UNCHANGED <<palVars, filVars, cfgVars, gamut, qryVars>>

\* filaments[i].rgb read in the main thread
ReadRgb(i) ==
    /\ fbuilt
    /\ result.op = "none"
    /\ result' = Value("rgb", i,
                       filament_rgb(filaments[i],
                                    ConfigGet(config, MainThread,
                                              "dual_color_mode")))
    /\ UNCHANGED <<palVars, filVars, cfgVars, gamut, qryVars>>

----------------------------------------------------------------------------
(* Exact lookups, in the main thread *)

\* palette.find_by_name(name)
FindByName(name) ==
    /\ built
    /\ lookup.op = "none"
    /\ lookup' = Found("find_by_name", NameKey(StrArg(name)),
                       find_by_name(by_name, name), << >>)
    /\ UNCHANGED <<palVars, filVars, result, cfgVars, gamut, measured, loaded>>

\* palette.find_by_rgb(rgb)
FindByRgb(rgb) ==
    /\ built
    /\ lookup.op = "none"
    /\ lookup' = Found("find_by_rgb", NumKey(rgb), find_by_rgb(by_rgb, rgb), << >>)
    /\ UNCHANGED <<palVars, filVars, result, cfgVars, gamut, measured, loaded>>

\* palette.find_by_hsl(hsl)
FindByHsl(hsl) ==
    /\ built
    /\ lookup.op = "none"
    /\ lookup' = Found("find_by_hsl", NumKey(hsl), find_by_hsl(by_hsl, hsl), << >>)
    /\ UNCHANGED <<palVars, filVars, result, cfgVars, gamut, measured, loaded>>

\* palette.find_by_lab(lab)
FindByLab(lab) ==
    /\ built
    /\ lookup.op = "none"
    /\ lookup' = Found("find_by_lab", NumKey(lab), find_by_lab(by_lab, lab), << >>)
    /\ UNCHANGED <<palVars, filVars, result, cfgVars, gamut, measured, loaded>>

\* palette.find_by_lch(lch)
FindByLch(lch) ==
    /\ built
    /\ lookup.op = "none"
    /\ lookup' = Found("find_by_lch", NumKey(lch), find_by_lch(by_lch, lch), << >>)
    /\ UNCHANGED <<palVars, filVars, result, cfgVars, gamut, measured, loaded>>

\* palette.find_by_maker(maker) on a filament palette
FindByMaker(maker) ==
    /\ fbuilt
    /\ lookup.op = "none"
    /\ \E list \in find_by_maker(filament_index["maker"], maker_synonyms, maker) :
         lookup' = Found("find_by_maker", NameKey(maker), 0, list)
    /\ UNCHANGED <<palVars, filVars, result, cfgVars, gamut, measured, loaded>>

\* palette.find_by_type(type_name)
FindByType(type_name) ==
    /\ fbuilt
    /\ lookup.op = "none"
    /\ lookup' = Found("find_by_type", NameKey(type_name), 0,
                       find_by_type(filament_index["type"], type_name))
    /\ UNCHANGED <<palVars, filVars, result, cfgVars, gamut, measured, loaded>>

\* palette.find_by_color(color)
FindByColor(color) ==
    /\ fbuilt
    /\ lookup.op = "none"
    /\ lookup' = Found("find_by_color", NameKey(StrArg(color)), 0,
                       find_by_color(filament_index["color"], color))
    /\ UNCHANGED <<palVars, filVars, result, cfgVars, gamut, measured, loaded>>

\* palette.find_by_rgb(rgb) on a filament palette
FindFilamentsByRgb(rgb) ==
    /\ fbuilt
    /\ lookup.op = "none"
    /\ lookup' = Found("find_filaments_by_rgb", NumKey(rgb), 0,
                       find_filaments_by_rgb(filaments, filament_index["rgb"], rgb))
    /\ UNCHANGED <<palVars, filVars, result, cfgVars, gamut, measured, loaded>>

\* palette.get_override_info() on a colour palette
GetOverrideInfo ==
    /\ built
    /\ lookup.op = "none"
    /\ lookup' = Found("get_override_info", NumKey(<<0, 0, 0>>), 0,
                       get_override_info(records))
    /\ UNCHANGED <<palVars, filVars, result, cfgVars, gamut, measured, loaded>>

\* palette.get_override_info() on a filament palette
GetFilamentOverrideInfo(core_synonyms) ==
    /\ fbuilt
    /\ lookup.op = "none"
    /\ lookup' = Found("get_filament_override_info", NumKey(<<0, 0, 0>>), 0,
                       get_filament_override_info(
                           filaments, maker_synonyms, core_synonyms,
                           ConfigGet(config, MainThread, "dual_color_mode")))
    /\ UNCHANGED <<palVars, filVars, result, cfgVars, gamut, measured, loaded>>

\* palette.find_by_finish(finish)
FindByFinish(finish) ==
    /\ fbuilt
    /\ lookup.op = "none"
    /\ lookup' = Found("find_by_finish", NameKey(finish), 0,
                       find_by_finish(filament_index["finish"], finish))
    /\ UNCHANGED <<palVars, filVars, result, cfgVars, gamut, measured, loaded>>

\* palette.filter(maker=maker)
Filter(maker) ==
    /\ fbuilt
    /\ lookup.op = "none"
    /\ lookup' = Found("filter", NameKey(maker), 0,
                       filter(filaments, maker_synonyms, maker, NoneArg, NoneArg,
                              NoneArg))
    /\ UNCHANGED <<palVars, filVars, result, cfgVars, gamut, measured, loaded>>

----------------------------------------------------------------------------
(* The parsers and the loaders, in the main thread *)

ParseColorRecords(data, source_file) ==
    /\ loaded.op = "none"
    /\ loaded' = Load("_parse_color_records",
                      [data |-> data, source_file |-> source_file],
                      _parse_color_records(data, source_file))
    /\ UNCHANGED <<palVars, filVars, result, cfgVars, gamut, lookup, measured>>

ParseFilamentRecords(data, source_file) ==
    /\ loaded.op = "none"
    /\ loaded' = Load("_parse_filament_records",
                      [data |-> data, source_file |-> source_file],
                      _parse_filament_records(data, source_file))
    /\ UNCHANGED <<palVars, filVars, result, cfgVars, gamut, lookup, measured>>

LoadColors(core, user) ==
    /\ loaded.op = "none"
    /\ loaded' = Load("load_colors", [core |-> core, user |-> user],
                      load_colors(core, user))
    /\ UNCHANGED <<palVars, filVars, result, cfgVars, gamut, lookup, measured>>

LoadMakerSynonyms(core, user) ==
    /\ loaded.op = "none"
    /\ loaded' = Load("load_maker_synonyms", [core |-> core, user |-> user],
                      load_maker_synonyms(core, user))
    /\ UNCHANGED <<palVars, filVars, result, cfgVars, gamut, lookup, measured>>

LoadPalette(name, core_dir, user_dir) ==
    /\ loaded.op = "none"
    /\ loaded' = Load("load_palette",
                      [name |-> name, core |-> core_dir, user |-> user_dir],
                      load_palette(name, core_dir, user_dir))
    /\ UNCHANGED <<palVars, filVars, result, cfgVars, gamut, lookup, measured>>

LoadFilaments(core, user) ==
    /\ loaded.op = "none"
    /\ loaded' = Load("load_filaments", [core |-> core, user |-> user],
                      load_filaments(core, user,
                                     ConfigGet(config, MainThread,
                                               "dual_color_mode")))
    /\ UNCHANGED <<palVars, filVars, result, cfgVars, gamut, lookup, measured>>

----------------------------------------------------------------------------
(* The distance functions, one call each *)

Euclidean(v1, v2) ==
    /\ measured.fn = "none"
    /\ measured' = Call("euclidean", v1, v2, euclidean(v1, v2))
    /\ UNCHANGED <<palVars, filVars, result, cfgVars, gamut, lookup, loaded>>

HueDiffDeg(h1, h2) ==
    /\ measured.fn = "none"
    /\ measured' = Call("hue_diff_deg", h1, h2, hue_diff_deg(h1, h2))
    /\ UNCHANGED <<palVars, filVars, result, cfgVars, gamut, lookup, loaded>>

HslEuclidean(hsl1, hsl2) ==
    /\ measured.fn = "none"
    /\ measured' = Call("hsl_euclidean", hsl1, hsl2, hsl_euclidean(hsl1, hsl2))
    /\ UNCHANGED <<palVars, filVars, result, cfgVars, gamut, lookup, loaded>>

DeltaE76(lab1, lab2) ==
    /\ measured.fn = "none"
    /\ measured' = Call("delta_e_76", lab1, lab2, delta_e_76(lab1, lab2))
    /\ UNCHANGED <<palVars, filVars, result, cfgVars, gamut, lookup, loaded>>

DeltaE94(lab1, lab2) ==
    /\ measured.fn = "none"
    /\ measured' = Call("delta_e_94", lab1, lab2, delta_e_94(lab1, lab2))
    /\ UNCHANGED <<palVars, filVars, result, cfgVars, gamut, lookup, loaded>>

DeltaE2000(lab1, lab2) ==
    /\ measured.fn = "none"
    /\ measured' = Call("delta_e_2000", lab1, lab2, delta_e_2000(lab1, lab2))
    /\ UNCHANGED <<palVars, filVars, result, cfgVars, gamut, lookup, loaded>>

DeltaECmc(lab1, lab2) ==
    /\ measured.fn = "none"
    /\ measured' = Call("delta_e_cmc", lab1, lab2, delta_e_cmc(lab1, lab2))
    /\ UNCHANGED <<palVars, filVars, result, cfgVars, gamut, lookup, loaded>>

----------------------------------------------------------------------------
(* Configuration setters and reads, thread by thread *)

\* a thread between two requests
Idle(t) == reading[t] = NoReads

\* the argument of a setter call that raised
SetterArgs(mode) == Args(<<0, 0, 0>>, "", mode, 0, NoneArg, NoneArg, NoneArg)

\* set_dual_color_mode(mode) called by thread t
SetDualColorMode(t, mode) ==
    /\ Idle(t)
    /\ IF mode \notin VALID_MODES
       THEN /\ result' = Raised("set_dual_color_mode", SetterArgs(mode),
                                "InvalidMode")
            /\ UNCHANGED <<config, last_set>>
       ELSE /\ config' = ConfigSet(config, t, "dual_color_mode", mode)
            /\ last_set' = [last_set EXCEPT ![t].dual_color_mode = mode]
            /\ UNCHANGED result
    /\ UNCHANGED <<palVars, filVars, reading, gamut, qryVars>>

\* set_gamut_tolerance(tolerance) called by thread t
SetGamutTolerance(t, tolerance) ==
    /\ Idle(t)
    /\ config' = ConfigSet(config, t, "gamut_tolerance", tolerance)
    /\ last_set' = [last_set EXCEPT ![t].gamut_tolerance = tolerance]
    /\ UNCHANGED <<palVars, filVars, result, reading, gamut, qryVars>>

\* set_gamut_max_iterations(iterations) called by thread t
SetGamutMaxIterations(t, iterations) ==
    /\ Idle(t)
    /\ config' = ConfigSet(config, t, "gamut_max_iterations", iterations)
    /\ last_set' = [last_set EXCEPT ![t].gamut_max_iterations = iterations]
    /\ UNCHANGED <<palVars, filVars, result, reading, gamut, qryVars>>

\* thread t, serving a request, reads _config.<attribute>: get_dual_color_mode()
\* in FilamentRecord.rgb, the tolerance in is_in_srgb_gamut, the iteration cap
\* in find_nearest_in_gamut
ReadConfig(t, attribute) ==
    /\ reading' = [reading EXCEPT ![t][attribute] =
                     @ \cup {ConfigGet(config, t, attribute)}]
    /\ UNCHANGED <<palVars, filVars, result, config, last_set, gamut, qryVars>>

\* thread t ends its request
FinishRequest(t) ==
    /\ ~Idle(t)
    /\ reading' = [reading EXCEPT ![t] = NoReads]
    /\ UNCHANGED <<palVars, filVars, result, config, last_set, gamut, qryVars>>

----------------------------------------------------------------------------
(* find_nearest_in_gamut, one loop pass at a time, in the main thread *)

\* find_nearest_in_gamut(lab, max_iterations) up to the loop
GamutCall(lab, max_iterations) ==
    /\ gamut.pc = "idle"
    /\ LET n == IF max_iterations.given THEN max_iterations.v
                ELSE ConfigGet(config, MainThread, "gamut_max_iterations")
           tolerance == ConfigGet(config, MainThread, "gamut_tolerance")
           lch == lab_to_lch(lab)
       IN  gamut' = IF is_in_srgb_gamut(lab, tolerance)
                    THEN [GamutIdle EXCEPT !.pc = "done", !.lab = lab,
                                           !.max_iterations = n, !.out = lab]
                    ELSE [pc |-> "loop", lab |-> lab, max_iterations |-> n,
                          L |-> lch[1], C |-> lch[2], h |-> lch[3],
                          min_c |-> NORMALIZED_MIN, max_c |-> lch[2], i |-> 0,
                          out |-> <<0, 0, 0>>]
    /\ UNCHANGED <<palVars, filVars, result, cfgVars, qryVars>>

\* one pass of "for _ in range(max_iterations)"
GamutIterate ==
    /\ gamut.pc = "loop"
    /\ gamut.i < gamut.max_iterations
    /\ LET r == BisectStep(gamut.L, gamut.h, gamut.min_c, gamut.max_c,
                           ConfigGet(config, MainThread, "gamut_tolerance"))
       IN  gamut' = [gamut EXCEPT !.min_c = r[1], !.max_c = r[2],
                                  !.i = gamut.i + 1]
    /\ UNCHANGED <<palVars, filVars, result, cfgVars, qryVars>>

\* return lch_to_lab((L, min_c, h)) after the loop
GamutReturn ==
    /\ gamut.pc = "loop"
    /\ gamut.i >= gamut.max_iterations
    /\ gamut' = [gamut EXCEPT !.pc = "done",
                              !.out = lch_to_lab(<<gamut.L, gamut.min_c, gamut.h>>)]
    /\ UNCHANGED <<palVars, filVars, result, cfgVars, qryVars>>

----------------------------------------------------------------------------
(* Specifications *)

\* one program run in the main thread: it sets the dual-colour mode, builds a
\* colour palette or a filament palette, and searches it once
Next ==
    \/ \E recs \in RecordLists :
         last_set[MainThread] = DocumentedDefaults /\ PaletteInit(recs)
    \/ \E space \in Spaces :
         \E metric \in MetricsFor(space), value \in QueryValues(space) :
           NearestColor(value, space, metric)
    \/ \E space \in Spaces, count \in Counts :
         \E metric \in MetricsFor(space), value \in QueryValues(space) :
           NearestColors(value, space, metric, count)
    \/ \E recs \in FilamentLists, synonyms \in SynonymTables :
         FilamentPaletteInit(recs, synonyms)
    \/ \E q \in FilamentQueries : NearestFilament(q[1], q[2], q[3])
    \/ \E q \in FilamentQueries, count \in Counts :
         q[1] = <<0, 255, 255>> /\ NearestFilaments(q[1], q[2], count, q[3])
    \/ \E i \in 1..Len(filaments) : ReadRgb(i)
    \/ \E mode \in ModeArgs :
         ~built /\ result.op = "none" /\ SetDualColorMode(MainThread, mode)

Spec == Init /\ [][Next]_vars

\* two threads setting and reading the configuration in any interleaving
NextConfig ==
    \E t \in Threads :
        \/ \E mode \in ModeArgs : SetDualColorMode(t, mode)
        \/ \E tolerance \in GamutTolerances : SetGamutTolerance(t, tolerance)
        \/ \E iterations \in IterationCaps : SetGamutMaxIterations(t, iterations)
        \/ \E attribute \in DOMAIN NoReads : ReadConfig(t, attribute)
        \/ FinishRequest(t)

SpecConfig == Init /\ [][NextConfig]_vars

\* the main thread configures the gamut mapper and maps one LAB colour
NextGamut ==
    \/ \E tolerance \in GamutTolerances :
         gamut.pc = "idle" /\ SetGamutTolerance(MainThread, tolerance)
    \/ \E iterations \in IterationCaps :
         gamut.pc = "idle" /\ SetGamutMaxIterations(MainThread, iterations)
    \/ \E lab \in GamutLabs, max_iterations \in MaxIterationArgs :
         GamutCall(lab, max_iterations)
    \/ GamutIterate
    \/ GamutReturn

SpecGamut == Init /\ [][NextGamut]_vars

\* a palette is built, of colours or of filaments, and one exact lookup made
NextLookup ==
    \/ \E recs \in RecordLists : PaletteInit(recs)
    \/ \E recs \in FilamentLists, synonyms \in SynonymTables :
         FilamentPaletteInit(recs, synonyms)
    \/ \E name \in NameKeys : FindByName(name)
    \/ \E rgb \in RgbKeys : FindByRgb(rgb)
    \/ \E hsl \in HslKeys : FindByHsl(hsl)
    \/ \E lab \in LabKeys : FindByLab(lab)
    \/ \E lch \in LchKeys : FindByLch(lch)
    \/ \E maker \in MakerKeys : result.op = "none" /\ FindByMaker(maker)
    \/ \E type_name \in TypeKeys : result.op = "none" /\ FindByType(type_name)
    \/ \E color \in ColorKeys : result.op = "none" /\ FindByColor(color)
    \/ \E rgb \in RgbKeys : result.op = "none" /\ FindFilamentsByRgb(rgb)
    \/ \E finish \in FinishKeys : result.op = "none" /\ FindByFinish(finish)
    \/ \E maker \in MakerKeys : result.op = "none" /\ Filter(maker)
    \/ \E q \in FilamentQueries :
         lookup.op = "none" /\ NearestFilament(q[1], q[2], q[3])

SpecLookup == Init /\ [][NextLookup]_vars

\* a filament palette holding malformed hex values is built, its colours are
\* read and it is scanned for the nearest filament
NextScan ==
    \/ \E mode \in VALID_MODES :
         ~fbuilt /\ SetDualColorMode(MainThread, mode)
    \/ \E recs \in ScanLists, synonyms \in SynonymTables :
         FilamentPaletteInit(recs, synonyms)
    \/ \E i \in 1..Len(filaments) : ReadRgb(i)
    \/ \E q \in FilamentQueries : NearestFilament(q[1], q[2], q[3])

SpecScan == Init /\ [][NextScan]_vars

\* the best-N searches on palettes shorter and longer than the cap
NextBestN ==
    \/ \E n \in SeriesLengths : PaletteInit(ColorSeries(n))
    \/ \E q \in SeriesQueries : NearestColor(q[1], q[2], q[3])
    \/ \E q \in SeriesQueries, count \in BestCounts :
         NearestColors(q[1], q[2], q[3], count)
    \/ \E n \in SeriesLengths : FilamentPaletteInit(FilamentSeries(n), NoSynonyms)
    \/ \E target_rgb \in TargetRgbs, count \in BestCounts, f \in SeriesFilters :
         NearestFilaments(target_rgb, "de76", count, f)

SpecBestN == Init /\ [][NextBestN]_vars

\* the main thread sets the dual-colour mode before and after it builds a
\* filament palette, then reads colours and looks filaments up by RGB
NextRemode ==
    \/ \E mode \in VALID_MODES :
         lookup.op = "none" /\ result.op = "none"
         /\ SetDualColorMode(MainThread, mode)
    \/ \E recs \in FilamentLists : FilamentPaletteInit(recs, NoSynonyms)
    \/ \E i \in 1..Len(filaments) : lookup.op = "none" /\ ReadRgb(i)
    \/ \E rgb \in RgbKeys : FindFilamentsByRgb(rgb)

SpecRemode == Init /\ [][NextRemode]_vars

\* a palette is built from records of every source tag, then looked up by RGB
\* or asked for its overrides
NextOverride ==
    \/ \E recs \in SeqsUpTo(OverridePool, MaxRecords) : PaletteInit(recs)
    \/ \E rgb \in RgbKeys : FindByRgb(rgb)
    \/ GetOverrideInfo
    \/ \E recs \in SeqsUpTo(FilamentOverridePool, MaxFilaments),
          synonyms \in SynonymTables :
         FilamentPaletteInit(recs, synonyms)
    \/ \E rgb \in RgbKeys : FindFilamentsByRgb(rgb)
    \/ \E core_synonyms \in SynonymTables :
         GetFilamentOverrideInfo(core_synonyms)

SpecOverride == Init /\ [][NextOverride]_vars

\* a named palette is loaded from data directories holding any of the files
NextPalette ==
    \E name \in PaletteNames, core_dir \in CorePaletteDirs,
       user_dir \in UserPaletteDirs :
      LoadPalette(name, core_dir, user_dir)

SpecPalette == Init /\ [][NextPalette]_vars

\* the parsers and the loaders applied to the sample files, under each mode
NextLoad ==
    \/ \E mode \in VALID_MODES :
         loaded.op = "none" /\ SetDualColorMode(MainThread, mode)
    \/ \E file \in CoreColorFiles \cup UserColorFiles,
          source_file \in SourceFiles(COLORS_JSON_FILENAME) :
         file.is_list /\ ParseColorRecords(file.rows, source_file)
    \/ \E file \in CoreFilamentFiles \cup UserFilamentFiles,
          source_file \in SourceFiles(FILAMENTS_JSON_FILENAME) :
         file.is_list /\ ParseFilamentRecords(file.rows, source_file)
    \/ \E core \in CoreColorFiles, user \in UserColorFiles :
         LoadColors(core, user)
    \/ \E core \in CoreFilamentFiles, user \in UserFilamentFiles :
         LoadFilaments(core, user)
    \/ \E core \in CoreSynonymFiles, user \in UserSynonymFiles :
         LoadMakerSynonyms(core, user)

SpecLoad == Init /\ [][NextLoad]_vars

\* the distance functions applied to every pair of the sample values
NextDistance ==
    \/ \E v1 \in RgbPoints, v2 \in RgbPoints : Euclidean(v1, v2)
    \/ \E h1 \in HuePoints, h2 \in HuePoints : HueDiffDeg(h1, h2)
    \/ \E hsl1 \in HslPoints, hsl2 \in HslPoints : HslEuclidean(hsl1, hsl2)
    \/ \E lab1 \in LabPoints, lab2 \in LabPoints : DeltaE76(lab1, lab2)
    \/ \E lab1 \in LabPoints, lab2 \in LabPoints : DeltaE94(lab1, lab2)
    \/ \E lab1 \in LabPoints, lab2 \in LabPoints : DeltaE2000(lab1, lab2)
    \/ \E lab1 \in LabPoints, lab2 \in LabPoints : DeltaECmc(lab1, lab2)

SpecDistance == Init /\ [][NextDistance]_vars

----------------------------------------------------------------------------
(* Properties: vocabulary *)

\* the layer of a record, by its source tag
IsUserRecord(r) == r.source \in {"user-colors.json", "user-filaments.json"}

IsCoreRecord(r) == r.source \in {"colors.json", "filaments.json"}

\* the least element of a non-empty set of positions
MinOf(S) == CHOOSE x \in S : \A y \in S : x <= y

IndexNames == {"name", "rgb", "hsl", "lab", "lch"}

\* the index variable of a given name
IndexOf(index) ==
    CASE index = "name" -> by_name
      [] index = "rgb"  -> by_rgb
      [] index = "hsl"  -> by_hsl
      [] index = "lab"  -> by_lab
      [] index = "lch"  -> by_lch

\* the positions of the records holding key k in an index
Holders(index, k) ==
    {i \in 1..Len(records) : IndexKey(records[i], index) = k}

PaletteSearches == {"nearest_color", "nearest_colors"}

FilamentSearches == {"nearest_filament", "nearest_filaments"}

MainMode == ConfigGet(config, MainThread, "dual_color_mode")

\* the record list the last search ran on, and one of its records
SearchRecord(i) ==
    IF result.op \in PaletteSearches THEN records[i] ELSE filaments[i]

\* the positions the last search compared
SearchCandidates ==
    IF result.op \in PaletteSearches THEN 1..Len(records)
    ELSE Range(filter(filaments, maker_synonyms, Wildcard(result.args.maker),
                      Wildcard(result.args.type_name),
                      Wildcard(result.args.finish), NoneArg))

\* the distance from the query of the last search to the record at position i
SearchDist(i) ==
    IF result.op \in PaletteSearches
    THEN RecordDistance(SpaceBranch(result.args.space),
                        PaletteMetricFn(lower(result.args.metric)),
                        result.args.value, records[i])
    ELSE DeltaE(FilamentMetricFn(lower(result.args.metric)),
                rgb_to_lab(result.args.value), filament_lab(filaments[i], MainMode))

\* the candidates at minimal distance
MinimalTies ==
    {i \in SearchCandidates :
        \A j \in SearchCandidates : DLeq(SearchDist(i), SearchDist(j))}

----------------------------------------------------------------------------
(* C1: each exact-lookup index of a Palette (lower-cased name, RGB tuple,    *)
(* rounded HSL / LAB / LCH key) holds exactly the keys of the records, and   *)
(* maps a key held by several records to the first-inserted user-layer       *)
(* record with that key if there is one, and otherwise to the first-inserted *)
(* core-layer record with that key.                                          *)
C1_IndexPrecedence ==
    built =>
      \A index \in IndexNames :
        /\ DOMAIN IndexOf(index)
             = {IndexKey(records[i], index) : i \in 1..Len(records)}
        /\ \A k \in DOMAIN IndexOf(index) :
             LET users == {i \in Holders(index, k) : IsUserRecord(records[i])}
             IN  IndexOf(index)[k] = IF users # {} THEN MinOf(users)
                                     ELSE MinOf(Holders(index, k))

\* C1, witness: an RGB key held by a core record and, after it, by two user
\* records, which the index maps to the first of the two user records
C1_Witness ==
    /\ built
    /\ \E k \in DOMAIN by_rgb :
         \E i, j, l \in Holders("rgb", k) :
           /\ i < j /\ j < l
           /\ IsCoreRecord(records[i])
           /\ IsUserRecord(records[j]) /\ IsUserRecord(records[l])
           /\ by_rgb[k] = j

(* C2: in a single-best search (Palette.nearest_color,                       *)
(* FilamentPalette.nearest_filament) that returns a record, the record       *)
(* returned is, among the candidates at exactly the minimal distance, the    *)
(* first-inserted user-layer record if there is one (wherever the core       *)
(* records stand in the list), and otherwise the first inserted.             *)
C2_TieGoesToUser ==
    (/\ result.op \in {"nearest_color", "nearest_filament"}
     /\ result.status = "ok"
     /\ SearchCandidates # {})
    => LET users == {i \in MinimalTies : IsUserRecord(SearchRecord(i))}
       IN  result.rec = IF users # {} THEN MinOf(users) ELSE MinOf(MinimalTies)

\* C2, witness: nearest_filament with a core filament and, later in the list,
\* a user filament at the same minimal distance returned the user filament
C2_Witness ==
    /\ result.op = "nearest_filament"
    /\ result.status = "ok"
    /\ \E i, j \in MinimalTies :
         /\ i < j
         /\ IsCoreRecord(filaments[i])
         /\ IsUserRecord(filaments[j])
         /\ result.rec = j

(* C3 as claimed: in the list returned by a best-N search                    *)
(* (Palette.nearest_colors, FilamentPalette.nearest_filaments), a core-layer *)
(* record never stands before a user-layer record of exactly equal distance. *)
C3_UserRankedBeforeCore ==
    (result.op \in {"nearest_colors", "nearest_filaments"} /\ result.status = "ok")
    => \A a, b \in DOMAIN result.list :
         (a < b /\ result.list[a].d = result.list[b].d)
         => ~(/\ IsCoreRecord(SearchRecord(result.list[a].rec))
              /\ IsUserRecord(SearchRecord(result.list[b].rec)))

(* C4: on a non-empty palette nearest_color, given a recognized metric,      *)
(* returns a record of the palette whose distance to the query is less than  *)
(* or equal to that of every record, together with exactly that distance;    *)
(* over the palette black, cyan, magenta, white the query (200,200,200) in   *)
(* RGB space returns white.                                                  *)
C4_NearestIsMinimal ==
    (result.op = "nearest_color" /\ records # << >>)
    => /\ PaletteMetricFn(lower(result.args.metric)) # "raise"
            => result.status = "ok"
       /\ result.status = "ok" =>
            /\ result.rec \in 1..Len(records)
            /\ result.d = SearchDist(result.rec)
            /\ \A j \in 1..Len(records) : DLeq(result.d, SearchDist(j))
            /\ (/\ records = ScenarioPalette
                /\ result.args.value = <<200, 200, 200>>
                /\ lower(result.args.space) = "rgb")
               => records[result.rec].name = "white"

\* C4, witness: the scenario query on the scenario palette returned white
C4_Witness ==
    /\ result.op = "nearest_color"
    /\ records = ScenarioPalette
    /\ result.args.value = <<200, 200, 200>>
    /\ result.args.space = "rgb"
    /\ result.rec = 4
    /\ records[result.rec] = White

(* C5: for a filament whose hex field holds two codes joined by "-", the   *)
(* RGB accessor returns the first code's RGB in mode "first", the second     *)
(* code's RGB in mode "last" and, in mode "mix", the RGB of the              *)
(* component-wise average of the two codes' LAB values; "#000000-#FFFFFF"    *)
(* gives (0,0,0), (255,255,255) and a mid-gray, and the "mix" of pure red    *)
(* and pure blue is not the RGB-space midpoint.                              *)
C5_DualHexModes ==
    (result.op = "rgb" /\ filaments[result.rec] \in {FZebra, FNeon})
    => LET zebra == filaments[result.rec] = FZebra
           c1 == IF zebra THEN <<0, 0, 0>> ELSE <<255, 0, 0>>
           c2 == IF zebra THEN <<255, 255, 255>> ELSE <<0, 0, 255>>
           lab1 == rgb_to_lab(c1)
           lab2 == rgb_to_lab(c2)
           mean == [k \in 1..3 |-> (lab1[k] + lab2[k]) \div 2]
           v == result.value
       IN  /\ MainMode = "first" => v = c1
           /\ MainMode = "last" => v = c2
           /\ MainMode = "mix" =>
                /\ v = lab_to_rgb(mean, TRUE)
                /\ zebra => v[1] = v[2] /\ v[2] = v[3] /\ 64 <= v[1] /\ v[1] <= 192
                /\ ~zebra => ~(/\ v[1] \in {127, 128}
                               /\ v[2] = 0
                               /\ v[3] \in {127, 128})

\* C5, witness: the RGB of " #FF0000 - #0000FF " was read in mode "mix"
C5_Witness ==
    /\ result.op = "rgb"
    /\ filaments[result.rec] = FNeon
    /\ MainMode = "mix"
    /\ result.value = <<202, 0, 136>>

(* C6: in every interleaving of the threads, the dual-colour mode, the gamut *)
(* tolerance and the iteration cap a thread reads, and has read during the   *)
(* request it is serving, are the values it last set itself, or the defaults *)
(* "first", 0.01 and 20 if it has set none.                                  *)
C6_ConfigIsolated ==
    \A t \in Threads :
      \A attribute \in DOMAIN NoReads :
        /\ ConfigGet(config, t, attribute) = last_set[t][attribute]
        /\ \A v \in reading[t][attribute] : v = last_set[t][attribute]

\* C6, witness: thread t1 has read the three defaults in the request it is
\* serving while thread t2 has set the three values to something else
C6_Witness ==
    /\ reading["t1"] = [dual_color_mode |-> {"first"},
                        gamut_tolerance |-> {Unit \div 100},
                        gamut_max_iterations |-> {20}]
    /\ last_set["t2"] = [dual_color_mode |-> "mix",
                         gamut_tolerance |-> 3 * (Unit \div 2),
                         gamut_max_iterations |-> 6]

\* the call of find_nearest_in_gamut has returned, on an out-of-gamut input
GamutMapped ==
    /\ gamut.pc = "done"
    /\ ~is_in_srgb_gamut(gamut.lab, ConfigGet(config, MainThread, "gamut_tolerance"))

(* C7 as claimed: for every out-of-gamut LAB input, the value returned by    *)
(* find_nearest_in_gamut is in gamut: is_in_srgb_gamut is true of it.        *)
C7_ResultInGamut ==
    GamutMapped
    => is_in_srgb_gamut(gamut.out, ConfigGet(config, MainThread, "gamut_tolerance"))

\* the distance between two hue angles around the circle, in thousandths of a
\* degree
HueGap(h1, h2) ==
    Min(Abs(h1 - h2), HUE_CIRCLE_DEGREES * 1000 - Abs(h1 - h2))

\* the hue of a LAB value held in thousandths is known to about one
\* thousandth over the chroma, in radians
HueTolerance(c) == IF c = 0 THEN 2 ELSE 2 + (2 * 57296) \div c

Unconstrained(arg) ==
    arg.kind = "none" \/ arg = StrArg("*") \/ arg.items = << >>

\* two maker names are the same maker: equal, or in one synonym group
SameMaker(m, n) ==
    \/ m = n
    \/ \E c \in DOMAIN maker_synonyms :
         {m, n} \subseteq {c} \cup Range(maker_synonyms[c])

\* the filaments the filters of the last search leave in
Passing ==
    {i \in 1..Len(filaments) :
        /\ Unconstrained(result.args.maker)
             \/ \E m \in Range(result.args.maker.items) :
                  SameMaker(m, filaments[i].maker)
        /\ Unconstrained(result.args.type_name)
             \/ filaments[i].type \in Range(result.args.type_name.items)
        /\ Unconstrained(result.args.finish)
             \/ /\ filaments[i].finish # None
                /\ filaments[i].finish \in Range(result.args.finish.items)}

(* C9: nearest_filament and nearest_filaments raise the "no candidates"      *)
(* error, returning no record, exactly when the maker / type / finish        *)
(* filters leave no filament; they never raise it when a filament passes.    *)
C9_NoCandidatesExactly ==
    result.op \in FilamentSearches
    => /\ (result.status = "raised" /\ result.error = "NoCandidates")
            <=> Passing = {}
       /\ result.error = "NoCandidates" => result.rec = 0 /\ result.list = NoList

\* C9, witness: a search of a non-empty filament palette for a maker no
\* filament has raised the error
C9_Witness ==
    /\ result.op \in FilamentSearches
    /\ filaments # << >>
    /\ result.args.maker = StrArg("Nobody")
    /\ result.status = "raised"
    /\ result.error = "NoCandidates"

RecognizedSpaces == {"rgb", "hsl", "lab", "lch"}

RecognizedMetrics ==
    {"de2000", "ciede2000", "de94", "cie94", "de76", "cie76", "euclidean",
     "cmc", "decmc", "cmc21", "cmc11"}

(* C10 as claimed: every nearest search given a space other than rgb / hsl / *)
(* lab / lch, or a metric outside the recognized names, raises UnknownSpace  *)
(* or UnknownMetric and returns nothing, whatever the other arguments.       *)
C10_UnknownIdentifierRaises ==
    (/\ result.op \in PaletteSearches \cup FilamentSearches
     /\ \/ /\ result.op \in PaletteSearches
           /\ lower(result.args.space) \notin RecognizedSpaces
        \/ lower(result.args.metric) \notin RecognizedMetrics)
    => /\ result.status = "raised"
       /\ result.error \in {"UnknownSpace", "UnknownMetric"}

\* the records the last exact lookup ran on
LookupPositions ==
    IF lookup.op \in {"find_by_name", "find_by_rgb", "find_by_hsl",
                      "find_by_lab", "find_by_lch"}
    THEN 1..Len(records) ELSE 1..Len(filaments)

\* two triples in thousandths are equal once rounded to two decimals
SameRounded(a, b) == \A k \in 1..3 : Round2(a[k]) = Round2(b[k])

\* the names a name key stands for
KeyNames == Range(lookup.key.arg.items)

\* the record at position i matches the key of the last exact lookup
MatchesKey(i) ==
    CASE lookup.op = "find_by_name" ->
           \E n \in KeyNames : lower(records[i].name) = lower(n)
      [] lookup.op = "find_by_rgb" -> records[i].rgb = lookup.key.nums
      [] lookup.op = "find_by_hsl" -> SameRounded(records[i].hsl, lookup.key.nums)
      [] lookup.op = "find_by_lab" -> SameRounded(records[i].lab, lookup.key.nums)
      [] lookup.op = "find_by_lch" -> SameRounded(records[i].lch, lookup.key.nums)
      [] lookup.op \in {"find_by_maker", "filter"} ->
           \E n \in KeyNames : SameMaker(n, filaments[i].maker)
      [] lookup.op = "find_by_type" -> filaments[i].type \in KeyNames
      [] lookup.op = "find_by_color" ->
           \E n \in KeyNames : lower(filaments[i].color) = lower(n)
      [] lookup.op = "find_filaments_by_rgb" ->
           \E mode \in VALID_MODES :
             filament_rgb(filaments[i], mode) = lookup.key.nums
      [] lookup.op = "find_by_finish" ->
           filaments[i].finish # None /\ filaments[i].finish \in KeyNames

Matching == {i \in LookupPositions : MatchesKey(i)}

(* C11: an exact lookup whose key matches no record returns an absent        *)
(* result, None on a colour palette and an empty list on a filament palette, *)
(* and does not raise; the lookup by colour name finds a record exactly when *)
(* one has that name in some letter case, and returns such a record.         *)
C11_AbsentWhenNoMatch ==
    lookup.op \notin {"none", "filter"}
    => /\ Matching = {} => lookup.rec = 0 /\ lookup.list = << >>
       /\ lookup.op = "find_by_name" =>
            /\ lookup.rec # 0 <=> Matching # {}
            /\ lookup.rec # 0 => lookup.rec \in Matching
       /\ lookup.op = "find_by_color" => Range(lookup.list) = Matching

\* C11, witness: find_by_name("teal") on a palette that holds cyan returned
\* None
C11_Witness ==
    /\ lookup.op = "find_by_name"
    /\ lookup.key.arg = StrArg("teal")
    /\ \E i \in 1..Len(records) : records[i] = Cyan
    /\ lookup.rec = 0

(* C16: find_by_maker, filter and nearest_filament match exactly the         *)
(* filaments whose maker is the query name, the canonical name it is an      *)
(* alias of, or an alias registered for that canonical name: find_by_maker   *)
(* and filter return each of them once and no other, and nearest_filament    *)
(* returns one of them, or raises when there is none.                        *)
C16_MakerSynonyms ==
    /\ lookup.op \in {"find_by_maker", "filter"}
       => /\ Range(lookup.list) = Matching
          /\ Len(lookup.list) = Cardinality(Matching)
    /\ (/\ result.op = "nearest_filament"
        /\ ~Unconstrained(result.args.maker))
       => LET named == {i \in 1..Len(filaments) :
                          \E n \in Range(result.args.maker.items) :
                            SameMaker(n, filaments[i].maker)}
          IN  /\ result.status = "ok" => result.rec \in named
              /\ named \cap Passing = {} <=> result.error = "NoCandidates"

\* C16, witness: find_by_maker("BLL") returned two filaments whose maker is
\* the canonical name "Bambu Lab"
C16_Witness ==
    /\ lookup.op = "find_by_maker"
    /\ lookup.key.arg = StrArg("BLL")
    /\ Len(lookup.list) = 2
    /\ \A k \in 1..2 : filaments[lookup.list[k]].maker = "Bambu Lab"

\* the colours the codes of a malformed hex stand for: black for a code that
\* does not parse
CodesOf(rec) ==
    CASE rec = FGrid  -> <<<<0, 0, 0>>>>
      [] rec = FSmoke -> <<<<0, 0, 0>>, <<255, 255, 255>>>>
      [] rec = FDusk  -> <<<<255, 255, 255>>, <<0, 0, 0>>>>

(* C12: the RGB accessor of a filament whose hex, or one code of whose hex,  *)
(* does not parse takes black (0,0,0) for that code and does not raise, and  *)
(* nearest_filament over a palette that holds such filaments completes: it   *)
(* returns a candidate whenever the filters leave one and the metric is      *)
(* known.                                                                    *)
C12_MalformedHexIsBlack ==
    /\ (result.op = "rgb" /\ filaments[result.rec] \in MalformedPool)
       => LET codes == CodesOf(filaments[result.rec])
              lab1 == rgb_to_lab(codes[1])
              lab2 == rgb_to_lab(codes[Len(codes)])
              mean == [k \in 1..3 |-> (lab1[k] + lab2[k]) \div 2]
          IN  /\ result.status = "ok"
              /\ result.value =
                   IF Len(codes) = 1 THEN codes[1]
                   ELSE CASE MainMode = "first" -> codes[1]
                          [] MainMode = "last"  -> codes[2]
                          [] MainMode = "mix"   -> lab_to_rgb(mean, TRUE)
    /\ (/\ result.op = "nearest_filament"
        /\ \E i \in 1..Len(filaments) : filaments[i] \in MalformedPool)
       => /\ result.error \notin {"NoValidFilaments"}
          /\ (Passing # {} /\ lower(result.args.metric) \in RecognizedMetrics)
             => /\ result.status = "ok"
                /\ result.rec \in Passing
                /\ result.rec \in MinimalTies

\* C12, witness: nearest_filament over "#GGGGGG" and "#12345-#FFFFFF" returned
\* one of the two
C12_Witness ==
    /\ result.op = "nearest_filament"
    /\ result.status = "ok"
    /\ Range(filaments) = {FGrid, FSmoke}
    /\ result.rec \in {1, 2}

\* the four Delta E functions
DeltaEFunctions == {"delta_e_76", "delta_e_94", "delta_e_2000", "delta_e_cmc"}

\* what the distance function named fn returns for the arguments a, b
Apply(fn, a, b) ==
    CASE fn = "euclidean"     -> euclidean(a, b)
      [] fn = "hue_diff_deg"  -> hue_diff_deg(a, b)
      [] fn = "hsl_euclidean" -> hsl_euclidean(a, b)
      [] fn = "delta_e_76"    -> delta_e_76(a, b)
      [] fn = "delta_e_94"    -> delta_e_94(a, b)
      [] fn = "delta_e_2000"  -> delta_e_2000(a, b)
      [] fn = "delta_e_cmc"   -> delta_e_cmc(a, b)

\* the value a distance function returns for a distance of exactly 0
ZeroOf(fn) ==
    IF fn \in {"euclidean", "hsl_euclidean", "delta_e_76"} THEN WZero
    ELSE IF fn = "hue_diff_deg" THEN 0
    ELSE Dist(0)

\* C13 as claimed: each of the four Delta E functions returns the same
\* distance when its two colours are exchanged.
C13_MetricsSymmetric ==
    measured.fn \in DeltaEFunctions
    => measured.out = Apply(measured.fn, measured.b, measured.a)

\* C14: every distance function (euclidean, hsl_euclidean, delta_e_76,
\* delta_e_94, delta_e_2000, delta_e_cmc) applied to a colour and itself
\* returns exactly 0 and does not raise, gray colours (a = b = 0) included.
C14_IdentityIsZero ==
    (measured.fn \notin {"none", "hue_diff_deg"} /\ measured.a = measured.b)
    => measured.out = ZeroOf(measured.fn)

\* C14, witness: delta_e_cmc of a gray and itself returned 0
C14_Witness ==
    /\ measured.fn = "delta_e_cmc"
    /\ measured.a = <<20000, 0, 0>>
    /\ measured.b = measured.a
    /\ measured.out = Dist(0)

\* C15: for hues in [0, 360) hue_diff_deg returns the smaller of |h1 - h2|
\* and 360 - |h1 - h2|, the same value when the hues are exchanged, a value
\* between 0 and 180, and 2 for the hues 359 and 1.
C15_HueDifferenceIsCircular ==
    measured.fn = "hue_diff_deg"
    => LET gap == Abs(measured.a - measured.b)
       IN  /\ measured.out = Min(gap, 360000 - gap)
           /\ measured.out = hue_diff_deg(measured.b, measured.a)
           /\ measured.out >= 0
           /\ measured.out <= 180000
           /\ (measured.a = 359000 /\ measured.b = 1000)
              => measured.out = 2000

\* C15, witness: hue_diff_deg(359, 1) returned 2
C15_Witness ==
    /\ measured.fn = "hue_diff_deg"
    /\ measured.a = 359000
    /\ measured.b = 1000
    /\ measured.out = 2000

\* the parsers and the loaders
ParseOps == {"_parse_color_records", "_parse_filament_records"}
LoadOps == {"load_colors", "load_filaments"}

\* the keys a row of the kind op reads must hold
RequiredKeys(op) ==
    IF op \in {"_parse_color_records", "load_colors"}
    THEN {"name", "hex", "rgb", "hsl", "lab", "lch"}
    ELSE {"maker", "type", "color", "hex"}

\* the required keys a row lacks
Lacking(op, row) == RequiredKeys(op) \ DOMAIN row

\* the triples a colour row holds have their three components
WellFormed(op, row) ==
    \A key \in DOMAIN row \cap {"rgb", "hsl", "lab", "lch"} :
        op \in {"_parse_color_records", "load_colors"} => Len(row[key]) >= 3

\* the positions of the rows of data that cannot be made into a record
BadRows(op, data) ==
    {i \in DOMAIN data : Lacking(op, data[i]) # {} \/ ~WellFormed(op, data[i])}

\* a record of the list returned stands for the row: same label and hex
RecordOfRow(op, rec, row, source) ==
    /\ rec.hex = row["hex"]
    /\ rec.source = source
    /\ IF op = "load_colors" THEN rec.name = row["name"]
       ELSE rec.color = row["color"] /\ rec.maker = row["maker"]

C18_UserRowIsolated ==
    loaded.op \in LoadOps
    => LET core == loaded.args.core
           user == loaded.args.user
           core_source == IF loaded.op = "load_colors" THEN COLORS_JSON_FILENAME
                          ELSE FILAMENTS_JSON_FILENAME
       IN  /\ (/\ core.exists /\ core.is_list
               /\ BadRows(loaded.op, core.rows) = {}
               /\ user.exists /\ user.is_list
               /\ BadRows(loaded.op, user.rows) # {})
              => /\ loaded.out.status = "ok"
                 /\ Len(loaded.out.records) >= Len(core.rows)
                 /\ \A i \in DOMAIN core.rows :
                       RecordOfRow(loaded.op, loaded.out.records[i],
                                   core.rows[i], core_source)
           /\ (core.exists /\ core.is_list /\ BadRows(loaded.op, core.rows) # {})
              => loaded.out.status = "error"

UpperHexDigits ==
    {"0", "1", "2", "3", "4", "5", "6", "7", "8", "9", "A", "B", "C", "D", "E",
     "F"}

\* '#' followed by six upper-case hexadecimal digits
NormalizedCode(code) ==
    /\ Len(code) = 7
    /\ code[1] = "#"
    /\ \A k \in 2..7 : code[k] \in UpperHexDigits

\* one normalized code, or two joined by "-"
NormalizedHex(hex) ==
    LET codes == split(hex, "-")
    IN  Len(codes) \in {1, 2} /\ \A k \in DOMAIN codes : NormalizedCode(codes[k])

\* C19 as claimed: every record a parse or a load returns holds a normalized
\* hex: '#' and six upper-case hexadecimal digits, or two such codes joined
\* by "-".
C19_HexNormalized ==
    (loaded.op # "none" /\ loaded.out.status = "ok")
    => \A i \in DOMAIN loaded.out.records :
          NormalizedHex(loaded.out.records[i].hex)

\* C20: the list load_colors / load_filaments returns holds one record for
\* each core row, in the order of the core file, followed by one record for
\* each user row, in the order of the user file: no user record stands before
\* a core record, and a core record overridden by a user record is still
\* there.
C20_CoreThenUser ==
    (loaded.op \in LoadOps /\ loaded.out.status = "ok")
    => LET colors == loaded.op = "load_colors"
           core == loaded.args.core.rows
           user == IF loaded.args.user.exists THEN loaded.args.user.rows
                   ELSE << >>
           recs == loaded.out.records
       IN  /\ Len(recs) = Len(core) + Len(user)
           /\ \A i \in DOMAIN core :
                 RecordOfRow(loaded.op, recs[i], core[i],
                             IF colors THEN COLORS_JSON_FILENAME
                             ELSE FILAMENTS_JSON_FILENAME)
           /\ \A j \in DOMAIN user :
                 RecordOfRow(loaded.op, recs[Len(core) + j], user[j],
                             IF colors THEN USER_COLORS_JSON_FILENAME
                             ELSE USER_FILAMENTS_JSON_FILENAME)
           /\ \A i, j \in DOMAIN recs :
                 (IsUserRecord(recs[i]) /\ IsCoreRecord(recs[j])) => j < i

\* C20, witness: load_colors returned core "cyan" and, after every core
\* record, the user "Cyan" that overrides it
C20_Witness ==
    /\ loaded.op = "load_colors"
    /\ loaded.out.status = "ok"
    /\ \E i, j \in DOMAIN loaded.out.records :
          /\ i < j
          /\ j = Len(loaded.out.records)
          /\ loaded.out.records[i].name = "cyan"
          /\ IsCoreRecord(loaded.out.records[i])
          /\ loaded.out.records[j].name = "Cyan"
          /\ IsUserRecord(loaded.out.records[j])
    /\ \E k \in DOMAIN loaded.out.log : loaded.out.log[k].kind = "name"

(* C21: a best-N search (nearest_colors, nearest_filaments) that returns     *)
(* gives exactly k entries, k = min(max(1, min(count, 50)), number of        *)
(* candidates): k distinct candidates, each with its distance, in            *)
(* non-decreasing order of distance, none farther than a candidate left      *)
(* out; never more than 50 entries.                                          *)
C21_BestN ==
    (/\ result.op \in {"nearest_colors", "nearest_filaments"}
     /\ result.status = "ok")
    => LET list == result.list
           k == Min(Max(1, Min(result.args.count, 50)),
                    Cardinality(SearchCandidates))
           listed == {list[n].rec : n \in 1..Len(list)}
       IN  /\ Len(list) = k
           /\ Len(list) <= 50
           /\ listed \subseteq SearchCandidates
           /\ Cardinality(listed) = Len(list)
           /\ \A n \in 1..Len(list) : list[n].d = SearchDist(list[n].rec)
           /\ \A n \in 1..(Len(list) - 1) : DLeq(list[n].d, list[n + 1].d)
           /\ \A i \in SearchCandidates \ listed :
                \A n \in 1..Len(list) : DLeq(list[n].d, SearchDist(i))

\* C21, witness: nearest_colors asked for more than 50 of more than 50 records
\* returned 50 entries
C21_Witness ==
    /\ result.op = "nearest_colors"
    /\ result.status = "ok"
    /\ result.args.count > 50
    /\ Len(records) > 50
    /\ Len(result.list) = 50

(* C30: a nearest search (nearest_color, nearest_colors) over a colour       *)
(* palette without records raises an error, and nearest_color never returns  *)
(* an absent record as its best match.                                       *)
C30_EmptyPaletteRaises ==
    (built /\ result.op \in PaletteSearches)
    => /\ Len(records) = 0 => result.status = "raised"
       /\ (result.op = "nearest_color" /\ result.status = "ok")
            => result.rec \in 1..Len(records)

(* C22: a wildcard filter value means "ignore this filter": nearest_filament *)
(* and nearest_filaments called with "*" for maker, type or finish return    *)
(* what the same call returns with that filter omitted.                      *)
C22_WildcardIsOmission ==
    result.op \in FilamentSearches
    => LET a == result.args
           Omit(x) == IF x = StrArg("*") THEN NoneArg ELSE x
           omitted ==
             IF result.op = "nearest_filament"
             THEN nearest_filament(filaments, maker_synonyms, MainMode, a.value,
                                   a.metric, Omit(a.maker), Omit(a.type_name),
                                   Omit(a.finish))
             ELSE nearest_filaments(filaments, maker_synonyms, MainMode, a.value,
                                    a.metric, a.count, Omit(a.maker),
                                    Omit(a.type_name), Omit(a.finish))
       IN  /\ result.status = omitted.status
           /\ result.error = omitted.error
           /\ result.rec = omitted.rec
           /\ result.d = omitted.d
           /\ result.list = omitted.list

\* C22, witness: a search with "*" for maker and finish and a type that some
\* filament of the palette does not have returned a filament
C22_Witness ==
    /\ result.op = "nearest_filament"
    /\ result.status = "ok"
    /\ result.args.maker = StrArg("*")
    /\ result.args.finish = StrArg("*")
    /\ result.args.type_name = StrArg("PLA")
    /\ \E i \in 1..Len(filaments) : filaments[i].type # "PLA"
    /\ filaments[result.rec].type = "PLA"

(* C24: in the list FilamentPalette.find_by_rgb returns, every user-layer    *)
(* filament stands before every core-layer filament with the same RGB.       *)
C24_UserBeforeCoreByRgb ==
    lookup.op = "find_filaments_by_rgb"
    => \A m, n \in 1..Len(lookup.list) :
         (/\ IsUserRecord(filaments[lookup.list[m]])
          /\ IsCoreRecord(filaments[lookup.list[n]]))
         => m < n

\* C24, witness: a user filament loaded after a core filament of the same
\* RGB, maker, type and colour name is returned before it
C24_Witness ==
    /\ lookup.op = "find_filaments_by_rgb"
    /\ Len(lookup.list) = 2
    /\ lookup.list[1] > lookup.list[2]
    /\ IsUserRecord(filaments[lookup.list[1]])
    /\ IsCoreRecord(filaments[lookup.list[2]])
    /\ filaments[lookup.list[1]].maker = filaments[lookup.list[2]].maker

(* C26: after any sequence of set_dual_color_mode calls, in every thread     *)
(* get_dual_color_mode returns one of "first", "last", "mix"; a call with    *)
(* any other string raises ValueError and leaves the mode as it was.         *)
C26_ModeStaysValid ==
    [][/\ \A t \in Threads :
            /\ ConfigGet(config, t, "dual_color_mode") \in {"first", "last", "mix"}
            /\ ConfigGet(config', t, "dual_color_mode") \in {"first", "last", "mix"}
            /\ reading'[t].dual_color_mode \subseteq {"first", "last", "mix"}
       /\ \A t \in Threads, mode \in ModeArgs \ {"first", "last", "mix"} :
            SetDualColorMode(t, mode)
            => /\ result'.status = "raised"
               /\ result'.error = "InvalidMode"
               /\ config' = config]_vars

\* C26, witness: a call with "blend" raised; the two threads had set "mix" and
\* "last", and the first thread reads "mix"
C26_Witness ==
    /\ result.op = "set_dual_color_mode"
    /\ result.status = "raised"
    /\ result.args.metric = "blend"
    /\ ConfigGet(config, "t1", "dual_color_mode") = "mix"
    /\ ConfigGet(config, "t2", "dual_color_mode") = "last"
    /\ reading["t1"].dual_color_mode = {"mix"}

(* C27: the RGB index of a filament palette agrees with the RGB accessor:    *)
(* find_by_rgb(k) returns exactly the filaments whose rgb resolves to k at   *)
(* the time of the call, also when the dual-colour mode was changed after    *)
(* the palette was built.                                                    *)
C27_RgbIndexFollowsMode ==
    lookup.op = "find_filaments_by_rgb"
    => Range(lookup.list)
         = {i \in 1..Len(filaments) :
              filament_rgb(filaments[i], MainMode) = lookup.key.nums}

(* C28 as claimed: for every input find_nearest_in_gamut returns after       *)
(* exactly max_iterations bisection steps.                                   *)
C28_AlwaysMaxIterations ==
    gamut.pc = "done" => gamut.i = gamut.max_iterations

(* C28: find_nearest_in_gamut bounds its own work.  An in-gamut input is     *)
(* returned without a bisection step.  For an out-of-gamut input the search  *)
(* starts on the interval from 0 to the chroma of the input and returns      *)
(* after exactly max_iterations steps (none when max_iterations is not       *)
(* positive), max_iterations being the argument or, when none is passed, the *)
(* configured value (20 unless changed); at every step                       *)
(* 0 <= min_c <= max_c <= original chroma, and each step halves the interval *)
(* max_c - min_c (to the resolution of a chroma held in thousandths).        *)
C28_BoundedBisection ==
    [][/\ \A lab \in GamutLabs, max_iterations \in MaxIterationArgs :
            GamutCall(lab, max_iterations)
            => /\ gamut'.i = 0
               /\ gamut'.max_iterations
                    = IF max_iterations.given THEN max_iterations.v
                      ELSE ConfigGet(config, MainThread, "gamut_max_iterations")
               /\ IF is_in_srgb_gamut(lab, ConfigGet(config, MainThread,
                                                     "gamut_tolerance"))
                  THEN gamut'.pc = "done"
                  ELSE /\ gamut'.pc = "loop"
                       /\ gamut'.min_c = 0
                       /\ gamut'.max_c = gamut'.C
                       /\ gamut'.C = lab_to_lch(lab)[2]
                       /\ gamut'.C >= 0
       /\ GamutIterate
            => LET w == gamut.max_c - gamut.min_c
                   after == gamut'.max_c - gamut'.min_c
               IN  /\ gamut'.i = gamut.i + 1
                   /\ gamut'.i <= gamut.max_iterations
                   /\ gamut'.C = gamut.C
                   /\ 0 <= gamut'.min_c
                   /\ gamut'.min_c <= gamut'.max_c
                   /\ gamut'.max_c <= gamut.C
                   /\ gamut.min_c <= gamut'.min_c
                   /\ gamut'.max_c <= gamut.max_c
                   /\ after \in {w \div 2, w - w \div 2}
       /\ GamutReturn => gamut.i = Max(0, gamut.max_iterations)]_vars

\* C28, witness: an out-of-gamut input was mapped with the default of 20
\* steps, which closed the interval on a chroma between 0 and that of the input
C28_Witness ==
    /\ GamutMapped
    /\ ConfigGet(config, MainThread, "gamut_max_iterations") = 20
    /\ gamut.max_iterations = 20
    /\ gamut.i = 20
    /\ 0 < gamut.min_c
    /\ gamut.max_c < gamut.C
    /\ gamut.max_c - gamut.min_c <= 1

(* C29: the same records count as user-layer everywhere.  Whenever the       *)
(* override precedence of index construction and tie-breaking prefers the    *)
(* source of one record to the source of another record of the same key,     *)
(* get_override_info reports that key with the one among the user sources    *)
(* and the other among the core sources, and find_by_rgb of a filament       *)
(* palette lists the one before the other; and whatever get_override_info    *)
(* reports as a user source overriding a core source, the precedence prefers.*)
C29_SameUserLayer ==
    /\ (built /\ lookup.op = "get_override_info")
       => \A index \in {"name", "rgb"} :
            /\ \A i, j \in 1..Len(records) :
                 (/\ IndexKey(records[i], index) = IndexKey(records[j], index)
                  /\ _should_prefer_source(records[i].source, records[j].source))
                 => IndexKey(records[i], index) \in DOMAIN lookup.list[index]
            /\ \A k \in DOMAIN lookup.list[index] :
                 _should_prefer_source(lookup.list[index][k][2],
                                       lookup.list[index][k][1])
    /\ (fbuilt /\ lookup.op = "get_filament_override_info")
       => /\ \A i, j \in 1..Len(filaments) :
               (/\ filament_rgb(filaments[i], MainMode)
                     = filament_rgb(filaments[j], MainMode)
                /\ _should_prefer_source(filaments[i].source, filaments[j].source))
               => LET k == filament_rgb(filaments[i], MainMode)
                  IN  /\ k \in DOMAIN lookup.list.rgb
                      /\ filaments[i].source \in Range(lookup.list.rgb[k].user)
                      /\ filaments[j].source \in Range(lookup.list.rgb[k].core)
          /\ \A k \in DOMAIN lookup.list.rgb :
               \A u \in Range(lookup.list.rgb[k].user),
                  c \in Range(lookup.list.rgb[k].core) :
                 _should_prefer_source(u, c)
    /\ (fbuilt /\ lookup.op = "find_filaments_by_rgb")
       => \A m, n \in 1..Len(lookup.list) :
            _should_prefer_source(filaments[lookup.list[n]].source,
                                  filaments[lookup.list[m]].source)
            => n < m

(* C23: load_maker_synonyms merges the user synonym file into the core one   *)
(* maker by maker: a maker absent from core gets the user list; a user list  *)
(* equal as a set to the core list leaves the core list as it is; a user     *)
(* list sharing no synonym with the core list replaces it; a user list that  *)
(* partly overlaps extends the core list with the user synonyms the core     *)
(* list did not contain; a maker the user file does not name keeps its core  *)
(* list.                                                                     *)
C23_SynonymsMerged ==
    loaded.op = "load_maker_synonyms"
    => LET core == IF loaded.args.core.exists THEN loaded.args.core.table
                   ELSE EmptyDict
           user == IF loaded.args.user.exists THEN loaded.args.user.table
                   ELSE EmptyDict
           out == loaded.out.synonyms
       IN  /\ DOMAIN out = DOMAIN core \cup DOMAIN user
           /\ \A maker \in DOMAIN out :
                IF maker \notin DOMAIN user THEN out[maker] = core[maker]
                ELSE IF maker \notin DOMAIN core THEN out[maker] = user[maker]
                ELSE IF Range(user[maker]) = Range(core[maker])
                THEN out[maker] = core[maker]
                ELSE IF Range(user[maker]) \cap Range(core[maker]) = {}
                THEN out[maker] = user[maker]
                ELSE /\ Len(out[maker]) >= Len(core[maker])
                     /\ SubSeq(out[maker], 1, Len(core[maker])) = core[maker]
                     /\ {out[maker][n] : n \in (Len(core[maker]) + 1)..Len(out[maker])}
                          = Range(user[maker]) \ Range(core[maker])

\* C23, witness: the user list of a maker shares one synonym with the core
\* list and brings two new ones, while another maker keeps its core list
C23_Witness ==
    /\ loaded.op = "load_maker_synonyms"
    /\ loaded.args.core.exists /\ loaded.args.user.exists
    /\ DOMAIN loaded.args.core.table = {"Bambu Lab", "Polymaker"}
    /\ loaded.args.user.table = ("Bambu Lab" :> <<"BBL", "Bambu", "Bambulab">>)
    /\ loaded.out.synonyms["Bambu Lab"] = <<"Bambu", "BLL", "BBL", "Bambulab">>
    /\ loaded.out.synonyms["Polymaker"] = <<"Poly">>

====
